---- MODULE Spec2Model ----
(***************************************************************************)
(* Feishu/Lark channel plugin: account enumeration and resolution,         *)
(* allowlist matching, the inbound access-policy path of the monitor, its  *)
(* event stream and abort signal, the vendor-client cache, the outbound    *)
(* send, target normalization and the probe.                               *)
(*                                                                         *)
(* Representation.  A JavaScript string on which the code performs string  *)
(* operations (regex replace, trim, toLowerCase, startsWith) is a sequence *)
(* of one-character strings, and so is a credential (hashed and            *)
(* concatenated by the client cache); a string that is only compared for   *)
(* equality (policy names, chat ids) is a TLA+ string.  An optional        *)
(* value (a property that may be undefined) is a sequence of length at     *)
(* most one: None when absent, Some(v) when present.                       *)
(***************************************************************************)
EXTENDS Integers, Sequences, FiniteSets, TLC

VARIABLES
    cfg,      \* the live configuration store: cfg.channels?.feishu (optional)
    env,      \* process.env, the FEISHU_* and LARK_* variables
    mon,      \* monitorFeishuProvider: its position and the values it captured
    last,     \* the inbound event being handled and what the handler did with it
    call,     \* a call of one of the pure functions: arguments and result
    clientCache,  \* client.ts clientCache: the Map entries, in insertion order
    clients,  \* the lark.Client objects constructed so far, by what each was
              \* constructed with; a client object is known by its index
    ops,      \* the getFeishuClient and clearFeishuClient calls made so far
    ws,       \* the lark.WSClient of the monitored account: "none" until
              \* wsClient.start() was called, "started" from then on
    abortSignal,  \* opts.abortSignal.aborted of the monitored account
    handled   \* the events the registered handler has been called with so
              \* far, each with what the handler decided

vars == <<cfg, env, mon, last, call, clientCache, clients, ops,
          ws, abortSignal, handled>>

\* the variables of the client cache
cacheVars == <<clientCache, clients, ops>>

\* the module has just been loaded: new Map(), no client constructed
CacheEmpty == clientCache = <<>> /\ clients = <<>> /\ ops = <<>>

\* the variables of the event stream
streamVars == <<ws, abortSignal, handled>>

\* no WebSocket client was started, the abort signal is not raised
StreamIdle == ws = "none" /\ abortSignal = FALSE /\ handled = <<>>

(***************************************************************************)
(* Optional values and the ?? operator                                     *)
(***************************************************************************)
None == <<>>

Some(v) == <<v>>

IsSome(o) == o # <<>>

Get(o) == o[1]

\* a ?? d
OrElse(o, d) == IF o = <<>> THEN d ELSE o[1]

(***************************************************************************)
(* JavaScript string operations on sequences of characters                 *)
(***************************************************************************)
UpperChars ==
    <<"A","B","C","D","E","F","G","H","I","J","K","L","M",
      "N","O","P","Q","R","S","T","U","V","W","X","Y","Z">>

LowerChars ==
    <<"a","b","c","d","e","f","g","h","i","j","k","l","m",
      "n","o","p","q","r","s","t","u","v","w","x","y","z">>

ToLowerChar(c) ==
    IF \E i \in DOMAIN UpperChars : UpperChars[i] = c
    THEN LowerChars[CHOOSE i \in DOMAIN UpperChars : UpperChars[i] = c]
    ELSE c

\* String.prototype.toLowerCase
ToLowerCase(s) == [i \in 1..Len(s) |-> ToLowerChar(s[i])]

WhiteSpace == {" ", "\t", "\n", "\r"}

\* String.prototype.trim
Trim(s) ==
    LET keep == {i \in 1..Len(s) : s[i] \notin WhiteSpace}
    IN  IF keep = {} THEN <<>>
        ELSE LET lo == CHOOSE i \in keep : \A j \in keep : i <= j
                 hi == CHOOSE i \in keep : \A j \in keep : j <= i
             IN  SubSeq(s, lo, hi)

\* String.prototype.startsWith
StartsWith(s, p) == Len(s) >= Len(p) /\ SubSeq(s, 1, Len(p)) = p

\* the prefix test of a regular expression /^(...):/i
StartsWithNoCase(s, p) == StartsWith(ToLowerCase(s), p)

DropPrefix(s, n) == SubSeq(s, n + 1, Len(s))

\* true when pat occurs somewhere in s
Contains(s, pat) ==
    \E i \in 1..(Len(s) - Len(pat) + 1) : SubSeq(s, i, i + Len(pat) - 1) = pat

FeishuColon == <<"f","e","i","s","h","u",":">>

LarkColon == <<"l","a","r","k",":">>

Star == <<"*">>

\* entry.replace(/^(feishu|lark):/i, "")
StripBrandPrefix(s) ==
    IF StartsWithNoCase(s, FeishuColon) THEN DropPrefix(s, Len(FeishuColon))
    ELSE IF StartsWithNoCase(s, LarkColon) THEN DropPrefix(s, Len(LarkColon))
    ELSE s

(***************************************************************************)
(* Allowlist matching                                                      *)
(***************************************************************************)
\* security.resolveDmPolicy().normalizeEntry and config.formatAllowFrom:
\* the normalization of allowlist entries the plugin publishes to the host
normalizeEntry(raw) == ToLowerCase(Trim(StripBrandPrefix(raw)))

\* a slip: the wildcard is recognised only when written bare
isAllowed_BareWildcardOnly(id, allowList) ==
    \/ \E i \in DOMAIN allowList : allowList[i] = Star
    \/ \E i \in DOMAIN allowList : Trim(StripBrandPrefix(allowList[i])) = id

\* the monitor's isAllowed
isAllowed(id, allowList) ==
    IF \E i \in DOMAIN allowList : allowList[i] = Star
    THEN TRUE
    ELSE \E i \in DOMAIN allowList :
            LET normalized == Trim(StripBrandPrefix(allowList[i]))
            IN  normalized = id \/ normalized = Star

(***************************************************************************)
(* Configuration: FeishuChannelConfig / FeishuAccountConfig                *)
(***************************************************************************)
\* DEFAULT_ACCOUNT_ID of the plugin SDK
DEFAULT_ACCOUNT_ID == <<"d","e","f","a","u","l","t">>

\* an account configuration with every optional field absent ({})
EmptyConfig ==
    [enabled |-> None, name |-> None, appId |-> None, appSecret |-> None,
     domain |-> None, encryptKey |-> None, verificationToken |-> None,
     dm |-> None, groupPolicy |-> None, groups |-> None,
     groupAllowFrom |-> None, accounts |-> None]

EmptyDm == [enabled |-> None, policy |-> None, allowFrom |-> None]

EmptyEnv ==
    [FEISHU_APP_ID |-> None, FEISHU_APP_SECRET |-> None,
     LARK_APP_ID |-> None, LARK_APP_SECRET |-> None,
     FEISHU_ENCRYPT_KEY |-> None, LARK_ENCRYPT_KEY |-> None,
     FEISHU_VERIFICATION_TOKEN |-> None, LARK_VERIFICATION_TOKEN |-> None]

\* credential values: strings that are hashed and concatenated, kept as
\* characters
Chars_cli_x == <<"c","l","i","_","x">>

Chars_secret == <<"s","e","c","r","e","t">>

Chars_cli_base == <<"c","l","i","_","b","a","s","e">>

Chars_sec_base == <<"s","e","c","_","b","a","s","e">>

Chars_cli_work == <<"c","l","i","_","w","o","r","k">>

Chars_sec_work == <<"s","e","c","_","w","o","r","k">>

Chars_cli_env == <<"c","l","i","_","e","n","v">>

Chars_cli_lark == <<"c","l","i","_","l","a","r","k">>

Chars_sec_env == <<"s","e","c","_","e","n","v">>

Chars_sec_lark == <<"s","e","c","_","l","a","r","k">>

\* truthiness of an optional string: present and not ""
TruthyStr(o) == IsSome(o) /\ Get(o) # <<>>

\* a ?? b on optional values
Coalesce(a, b) == IF IsSome(a) THEN a ELSE b

\* obj[key] on a Record<string, T> kept as a sequence of [id, config] entries
\* in insertion order
Lookup(entries, key) ==
    IF \E i \in DOMAIN entries : entries[i].id = key
    THEN Some(entries[CHOOSE i \in DOMAIN entries : entries[i].id = key].config)
    ELSE None

(***************************************************************************)
(* Object.keys: integer-like keys ascending, then the others in insertion  *)
(* order                                                                   *)
(***************************************************************************)
DigitChars == <<"0","1","2","3","4","5","6","7","8","9">>

IsDigit(c) == \E i \in DOMAIN DigitChars : DigitChars[i] = c

DigitVal(c) == (CHOOSE i \in DOMAIN DigitChars : DigitChars[i] = c) - 1

\* the largest array index, 2^32 - 2, in decimal
MaxIndexDigits == <<"4","2","9","4","9","6","7","2","9","4">>

\* a < b for canonical decimal numerals
NumeralLess(a, b) ==
    \/ Len(a) < Len(b)
    \/ /\ Len(a) = Len(b)
       /\ \E i \in 1..Len(a) :
            /\ DigitVal(a[i]) < DigitVal(b[i])
            /\ \A j \in 1..(i - 1) : a[j] = b[j]

\* a canonical numeric string below 2^32 - 1: such keys are enumerated first
IsArrayIndex(k) ==
    /\ Len(k) > 0
    /\ \A i \in 1..Len(k) : IsDigit(k[i])
    /\ (Len(k) = 1 \/ k[1] # "0")
    /\ (k = MaxIndexDigits \/ NumeralLess(k, MaxIndexDigits))

RECURSIVE SortNumerals(_)
SortNumerals(S) ==
    IF S = {} THEN <<>>
    ELSE LET m == CHOOSE x \in S : \A y \in S \ {x} : NumeralLess(x, y)
         IN  <<m>> \o SortNumerals(S \ {m})

IsNotArrayIndex(k) == ~IsArrayIndex(k)

ObjectKeys(entries) ==
    LET keys == [i \in 1..Len(entries) |-> entries[i].id]
    IN  SortNumerals({keys[i] : i \in {j \in 1..Len(keys) : IsArrayIndex(keys[j])}})
        \o SelectSeq(keys, IsNotArrayIndex)

(***************************************************************************)
(* Account registry                                                        *)
(***************************************************************************)
\* Set.prototype.add on a Set kept in insertion order
SetAdd(ids, x) ==
    IF \E i \in DOMAIN ids : ids[i] = x THEN ids ELSE Append(ids, x)

RECURSIVE SetAddAll(_, _)
SetAddAll(ids, keys) ==
    IF keys = <<>> THEN ids ELSE SetAddAll(SetAdd(ids, Head(keys)), Tail(keys))

\* a slip: the default id is listed only when both credentials are present
listFeishuAccountIds_BothCredentials(feishuConfig) ==
    IF ~IsSome(feishuConfig) THEN <<>>
    ELSE
      LET c == Get(feishuConfig)
          base == IF TruthyStr(c.appId) /\ TruthyStr(c.appSecret)
                  THEN <<DEFAULT_ACCOUNT_ID>> ELSE <<>>
          named == IF IsSome(c.accounts)
                   THEN SetAddAll(base, ObjectKeys(Get(c.accounts))) ELSE base
      IN  IF Len(named) = 0 /\ c.enabled # Some(FALSE)
          THEN <<DEFAULT_ACCOUNT_ID>> ELSE named

listFeishuAccountIds(feishuConfig) ==
    IF ~IsSome(feishuConfig) THEN <<>>
    ELSE
      LET c == Get(feishuConfig)
          base == IF TruthyStr(c.appId) \/ TruthyStr(c.appSecret)
                  THEN SetAdd(<<>>, DEFAULT_ACCOUNT_ID) ELSE <<>>
          named == IF IsSome(c.accounts)
                   THEN SetAddAll(base, ObjectKeys(Get(c.accounts))) ELSE base
      IN  IF Len(named) = 0 /\ c.enabled # Some(FALSE)
          THEN SetAdd(named, DEFAULT_ACCOUNT_ID) ELSE named

resolveDefaultFeishuAccountId(feishuConfig) ==
    LET ids == listFeishuAccountIds(feishuConfig)
    IN  IF Len(ids) > 0 THEN ids[1] ELSE DEFAULT_ACCOUNT_ID

\* a slip: the dm section is merged field by field instead of replaced
Overlay_DeepDm(baseConfig, accountConfig) ==
    [f \in DOMAIN baseConfig |->
        IF f = "dm" /\ IsSome(accountConfig.dm) /\ IsSome(baseConfig.dm)
        THEN Some([g \in DOMAIN EmptyDm |->
                     IF IsSome(Get(accountConfig.dm)[g]) THEN Get(accountConfig.dm)[g]
                     ELSE Get(baseConfig.dm)[g]])
        ELSE IF IsSome(accountConfig[f]) THEN accountConfig[f] ELSE baseConfig[f]]

\* { ...baseConfig, ...accountConfig }
Overlay(baseConfig, accountConfig) ==
    [f \in DOMAIN baseConfig |->
        IF IsSome(accountConfig[f]) THEN accountConfig[f] ELSE baseConfig[f]]

\* a slip: an accounts entry keyed by the default id is overlaid too
AccountConfigOf_DefaultKeyToo(feishuConfig, resolvedAccountId) ==
    IF IsSome(feishuConfig) /\ IsSome(Get(feishuConfig).accounts)
    THEN Lookup(Get(Get(feishuConfig).accounts), resolvedAccountId)
    ELSE None

\* the named account's config: absent for the default id and for an id that
\* is no key of accounts
AccountConfigOf(feishuConfig, resolvedAccountId) ==
    IF resolvedAccountId # DEFAULT_ACCOUNT_ID
       /\ IsSome(feishuConfig) /\ IsSome(Get(feishuConfig).accounts)
    THEN Lookup(Get(Get(feishuConfig).accounts), resolvedAccountId)
    ELSE None

\* accountConfig ? { ...baseConfig, ...accountConfig } : baseConfig
MergedConfigOf(baseConfig, accountConfig) ==
    IF IsSome(accountConfig) THEN Overlay(baseConfig, Get(accountConfig))
    ELSE baseConfig

\* a slip: enabled does not depend on the credentials
ResolvedAccount_EnabledWithoutCredentials(resolvedAccountId, mergedConfig, appId, appSecret, e) ==
    [accountId |-> resolvedAccountId,
     name |-> mergedConfig.name,
     enabled |-> (mergedConfig.enabled # Some(FALSE)),
     configured |-> (TruthyStr(appId) /\ TruthyStr(appSecret)),
     appId |-> appId,
     appSecret |-> appSecret,
     domain |-> OrElse(mergedConfig.domain, "feishu"),
     encryptKey |->
        Coalesce(mergedConfig.encryptKey,
                 Coalesce(e.FEISHU_ENCRYPT_KEY, e.LARK_ENCRYPT_KEY)),
     verificationToken |->
        Coalesce(mergedConfig.verificationToken,
                 Coalesce(e.FEISHU_VERIFICATION_TOKEN, e.LARK_VERIFICATION_TOKEN)),
     config |-> mergedConfig]

\* the returned record, from the credentials after the environment fallback
ResolvedAccount(resolvedAccountId, mergedConfig, appId, appSecret, e) ==
    [accountId |-> resolvedAccountId,
     name |-> mergedConfig.name,
     enabled |-> (mergedConfig.enabled # Some(FALSE)
                  /\ TruthyStr(appId) /\ TruthyStr(appSecret)),
     configured |-> (TruthyStr(appId) /\ TruthyStr(appSecret)),
     appId |-> appId,
     appSecret |-> appSecret,
     domain |-> OrElse(mergedConfig.domain, "feishu"),
     encryptKey |->
        Coalesce(mergedConfig.encryptKey,
                 Coalesce(e.FEISHU_ENCRYPT_KEY, e.LARK_ENCRYPT_KEY)),
     verificationToken |->
        Coalesce(mergedConfig.verificationToken,
                 Coalesce(e.FEISHU_VERIFICATION_TOKEN, e.LARK_VERIFICATION_TOKEN)),
     config |-> mergedConfig]

\* a slip: the LARK_* variables are read before the FEISHU_* ones
ResolveMerged_LarkFirst(resolvedAccountId, mergedConfig, e) ==
    ResolvedAccount(
        resolvedAccountId, mergedConfig,
        Coalesce(mergedConfig.appId, Coalesce(e.LARK_APP_ID, e.FEISHU_APP_ID)),
        Coalesce(mergedConfig.appSecret,
                 Coalesce(e.LARK_APP_SECRET, e.FEISHU_APP_SECRET)),
        e)

\* the environment fallback of appId and appSecret
ResolveMerged(resolvedAccountId, mergedConfig, e) ==
    ResolvedAccount(
        resolvedAccountId, mergedConfig,
        Coalesce(mergedConfig.appId, Coalesce(e.FEISHU_APP_ID, e.LARK_APP_ID)),
        Coalesce(mergedConfig.appSecret,
                 Coalesce(e.FEISHU_APP_SECRET, e.LARK_APP_SECRET)),
        e)

ResolveById(feishuConfig, e, resolvedAccountId) ==
    ResolveMerged(
        resolvedAccountId,
        MergedConfigOf(OrElse(feishuConfig, EmptyConfig),
                       AccountConfigOf(feishuConfig, resolvedAccountId)),
        e)

resolveFeishuAccount(feishuConfig, e, accountId) ==
    ResolveById(feishuConfig, e,
                OrElse(accountId, resolveDefaultFeishuAccountId(feishuConfig)))

(***************************************************************************)
(* Inbound events and the monitor                                          *)
(***************************************************************************)
ou_1 == <<"o","u","_","1">>

ou_2 == <<"o","u","_","2">>

\* the host's mention patterns (core.channel.mentions.buildMentionRegexes),
\* kept as the literal texts they search for
buildMentionRegexes == << <<"@","b","o","t">> >>

\* re.test(text) for a pattern kept as a literal
RegexTest(re, text) == Contains(text, re)

\* sender.sender_id?.open_id ?? sender.sender_id?.user_id ?? ""
SenderIdOf(data) ==
    LET sid == data.sender.sender_id
    IN  IF ~IsSome(sid) THEN <<>>
        ELSE OrElse(Coalesce(Get(sid).open_id, Get(sid).user_id), <<>>)

\* groupConfig?.allow is truthy
GroupAllowed(groupConfig) ==
    IsSome(groupConfig) /\ Get(groupConfig).allow = Some(TRUE)

\* groupConfig.users && groupConfig.users.length > 0
HasUsers(groupConfig) ==
    IsSome(Get(groupConfig).users) /\ Len(Get(Get(groupConfig).users)) > 0

\* message.mentions?.some((m) => m.name === "bot") ?? false
IsMentioned(message) ==
    IsSome(message.mentions)
    /\ \E i \in DOMAIN Get(message.mentions) : Get(message.mentions)[i].name = "bot"

\* a slip: the dm.enabled switch is not consulted
DmPolicyCheck_IgnoreEnabled(senderId, p) ==
    IF p.dmPolicy = "disabled" THEN "DM policy is disabled"
    ELSE IF p.dmPolicy = "allowlist" /\ ~isAllowed(senderId, p.allowFrom)
         THEN "not in allowlist"
    ELSE IF p.dmPolicy = "pairing" /\ ~isAllowed(senderId, p.allowFrom)
         THEN "not paired"
    ELSE "pass"

\* a slip: the allowlist policy does not consult dm.allowFrom
DmPolicyCheck_NoAllowlist(senderId, p) ==
    IF ~p.dmEnabled THEN "DM disabled"
    ELSE IF p.dmPolicy = "disabled" THEN "DM policy is disabled"
    ELSE IF p.dmPolicy = "pairing" /\ ~isAllowed(senderId, p.allowFrom)
         THEN "not paired"
    ELSE "pass"

\* a slip: a sender who was turned away once is remembered and let in the
\* next time
DmPolicyCheck_RemembersSender(senderId, p) ==
    IF ~p.dmEnabled THEN "DM disabled"
    ELSE IF p.dmPolicy = "disabled" THEN "DM policy is disabled"
    ELSE IF p.dmPolicy = "allowlist" /\ ~isAllowed(senderId, p.allowFrom)
            /\ ~(\E i \in DOMAIN handled : handled[i].senderId = senderId)
         THEN "not in allowlist"
    ELSE IF p.dmPolicy = "pairing" /\ ~isAllowed(senderId, p.allowFrom)
         THEN "not paired"
    ELSE "pass"

\* the "Check DM policy" block of handleIncomingMessage: the debug line of
\* the return taken, or "pass" when the block falls through
DmPolicyCheck(senderId, p) ==
    IF ~p.dmEnabled THEN "DM disabled"
    ELSE IF p.dmPolicy = "disabled" THEN "DM policy is disabled"
    ELSE IF p.dmPolicy = "allowlist" /\ ~isAllowed(senderId, p.allowFrom)
         THEN "not in allowlist"
    ELSE IF p.dmPolicy = "pairing" /\ ~isAllowed(senderId, p.allowFrom)
         THEN "not paired"
    ELSE "pass"

\* a slip: the global groupAllowFrom list is consulted although the group
\* has its own users list
GroupPolicyCheck_GlobalListToo(message, text, senderId, p) ==
    LET groupConfig == Lookup(p.groupsConfig, message.chat_id)
    IN  IF p.groupPolicy = "disabled" THEN "Group policy is disabled"
        ELSE IF p.groupPolicy = "allowlist" /\ ~GroupAllowed(groupConfig)
             THEN "Group not in allowlist"
        ELSE IF p.groupPolicy = "allowlist" /\ HasUsers(groupConfig)
                /\ ~isAllowed(senderId, Get(Get(groupConfig).users))
                /\ ~isAllowed(senderId, p.groupAllowFrom)
             THEN "Sender not allowed in group"
        ELSE IF p.groupPolicy = "allowlist" /\ ~HasUsers(groupConfig)
                /\ Len(p.groupAllowFrom) > 0
                /\ ~isAllowed(senderId, p.groupAllowFrom)
             THEN "Sender not in groupAllowFrom"
        ELSE IF p.groupPolicy = "open" /\ ~IsMentioned(message)
                /\ ~(\E i \in DOMAIN p.mentionRegexes :
                        RegexTest(p.mentionRegexes[i], text))
             THEN "Bot not mentioned"
        ELSE "pass"

\* a slip: the open policy also requires the chat to be listed in groups
GroupPolicyCheck_OpenNeedsGroup(message, text, senderId, p) ==
    LET groupConfig == Lookup(p.groupsConfig, message.chat_id)
    IN  IF p.groupPolicy = "disabled" THEN "Group policy is disabled"
        ELSE IF p.groupPolicy \in {"allowlist", "open"} /\ ~GroupAllowed(groupConfig)
             THEN "Group not in allowlist"
        ELSE IF p.groupPolicy = "allowlist" /\ HasUsers(groupConfig)
                /\ ~isAllowed(senderId, Get(Get(groupConfig).users))
             THEN "Sender not allowed in group"
        ELSE IF p.groupPolicy = "allowlist" /\ ~HasUsers(groupConfig)
                /\ Len(p.groupAllowFrom) > 0
                /\ ~isAllowed(senderId, p.groupAllowFrom)
             THEN "Sender not in groupAllowFrom"
        ELSE IF p.groupPolicy = "open" /\ ~IsMentioned(message)
                /\ ~(\E i \in DOMAIN p.mentionRegexes :
                        RegexTest(p.mentionRegexes[i], text))
             THEN "Bot not mentioned"
        ELSE "pass"

\* the "Check group policy" block of handleIncomingMessage
GroupPolicyCheck(message, text, senderId, p) ==
    LET groupConfig == Lookup(p.groupsConfig, message.chat_id)
    IN  IF p.groupPolicy = "disabled" THEN "Group policy is disabled"
        ELSE IF p.groupPolicy = "allowlist" /\ ~GroupAllowed(groupConfig)
             THEN "Group not in allowlist"
        ELSE IF p.groupPolicy = "allowlist" /\ HasUsers(groupConfig)
                /\ ~isAllowed(senderId, Get(Get(groupConfig).users))
             THEN "Sender not allowed in group"
        ELSE IF p.groupPolicy = "allowlist" /\ ~HasUsers(groupConfig)
                /\ Len(p.groupAllowFrom) > 0
                /\ ~isAllowed(senderId, p.groupAllowFrom)
             THEN "Sender not in groupAllowFrom"
        ELSE IF p.groupPolicy = "open" /\ ~IsMentioned(message)
                /\ ~(\E i \in DOMAIN p.mentionRegexes :
                        RegexTest(p.mentionRegexes[i], text))
             THEN "Bot not mentioned"
        ELSE "pass"

\* what the handler did with an event: the debug or warning line of the
\* return it took ("forwarded" when it reached the reply pipeline), whether
\* the DM block and the group block were entered and fell through, and the
\* host calls it made
Dropped(data, senderId, why) ==
    [data |-> data, senderId |-> senderId, log |-> why,
     dmPassed |-> FALSE, groupPassed |-> FALSE, calls |-> <<>>]

\* a slip: the policies are checked before the text is looked at, and a
\* blank text is not dropped
handleIncomingMessage_BlankTextForwarded(data, p) ==
    LET message == data.message
        senderId == SenderIdOf(data)
        isDirectMessage == message.chat_type = "p2p"
        isGroupMessage == message.chat_type = "group"
    IN  IF message.message_type # "text"
        THEN Dropped(data, senderId, "Ignoring non-text message type")
        ELSE IF ~IsSome(message.content)
        THEN Dropped(data, senderId, "Failed to parse message content")
        ELSE
          LET text == OrElse(Get(message.content).text, <<>>)
              dm == IF isDirectMessage THEN DmPolicyCheck(senderId, p) ELSE "skipped"
              grp == IF isGroupMessage
                     THEN GroupPolicyCheck(message, text, senderId, p)
                     ELSE "skipped"
          IN  IF dm \notin {"pass", "skipped"} THEN Dropped(data, senderId, dm)
              ELSE IF grp \notin {"pass", "skipped"}
                   THEN [Dropped(data, senderId, grp) EXCEPT !.dmPassed = (dm = "pass")]
              ELSE [data |-> data, senderId |-> senderId, log |-> "forwarded",
                    dmPassed |-> (dm = "pass"), groupPassed |-> (grp = "pass"),
                    calls |->
                      << [fn |-> "autoReply.handleIncomingMessage",
                          accountId |-> p.accountId,
                          from |-> senderId,
                          to |-> message.chat_id,
                          body |-> text,
                          chatType |-> IF isDirectMessage THEN "direct" ELSE "group"] >>]

handleIncomingMessage(data, p) ==
    LET message == data.message
        senderId == SenderIdOf(data)
        isDirectMessage == message.chat_type = "p2p"
        isGroupMessage == message.chat_type = "group"
    IN  IF message.message_type # "text"
        THEN Dropped(data, senderId, "Ignoring non-text message type")
        ELSE IF ~IsSome(message.content)
        THEN Dropped(data, senderId, "Failed to parse message content")
        ELSE
          LET text == OrElse(Get(message.content).text, <<>>)
              dm == IF isDirectMessage THEN DmPolicyCheck(senderId, p) ELSE "skipped"
              grp == IF isGroupMessage
                     THEN GroupPolicyCheck(message, text, senderId, p)
                     ELSE "skipped"
          IN  IF Trim(text) = <<>> THEN Dropped(data, senderId, "empty text")
              ELSE IF dm \notin {"pass", "skipped"} THEN Dropped(data, senderId, dm)
              ELSE IF grp \notin {"pass", "skipped"}
                   THEN [Dropped(data, senderId, grp) EXCEPT !.dmPassed = (dm = "pass")]
              ELSE [data |-> data, senderId |-> senderId, log |-> "forwarded",
                    dmPassed |-> (dm = "pass"), groupPassed |-> (grp = "pass"),
                    calls |->
                      << [fn |-> "autoReply.handleIncomingMessage",
                          accountId |-> p.accountId,
                          from |-> senderId,
                          to |-> message.chat_id,
                          body |-> text,
                          chatType |-> IF isDirectMessage THEN "direct" ELSE "group"] >>]

\* the handler registered for im.message.receive_v1: handleIncomingMessage
\* inside try/catch. r is what handleIncomingMessage did; the only await in
\* it is the reply pipeline, whose rejection is caught and logged
HandlerOutcome(r, threw) ==
    [data |-> r.data, senderId |-> r.senderId, log |-> r.log,
     dmPassed |-> r.dmPassed, groupPassed |-> r.groupPassed, calls |-> r.calls,
     caught |-> threw,
     errorLog |-> IF threw THEN Some("Error handling Feishu message") ELSE None,
     propagated |-> FALSE]

EventHandler_NoCatch(data, p, pipeline) ==
    LET r == handleIncomingMessage(data, p)
        threw == r.calls # <<>> /\ pipeline = "rejects"
    IN  [HandlerOutcome(r, FALSE) EXCEPT !.propagated = threw]

EventHandler(data, p, pipeline) ==
    HandlerOutcome(handleIncomingMessage(data, p),
                   handleIncomingMessage(data, p).calls # <<>>
                     /\ pipeline = "rejects")

\* dmConfig?.enabled ?? true, dmConfig?.policy ?? "pairing", ...: the values
\* monitorFeishuProvider captures for the handler it registers
CapturedPolicy(account, dmConfig) ==
    [accountId |-> account.accountId,
     dmEnabled |-> OrElse(dmConfig.enabled, TRUE),
     dmPolicy |-> OrElse(dmConfig.policy, "pairing"),
     allowFrom |-> OrElse(dmConfig.allowFrom, <<>>),
     groupPolicy |-> OrElse(account.config.groupPolicy, "allowlist"),
     groupsConfig |-> OrElse(account.config.groups, <<>>),
     groupAllowFrom |-> OrElse(account.config.groupAllowFrom, <<>>),
     mentionRegexes |-> buildMentionRegexes]

MonitorAccount(feishuConfig, account) ==
    IF IsSome(feishuConfig) /\ Get(feishuConfig).enabled = Some(FALSE)
    THEN [pc |-> "returned", why |-> "disabled", p |-> None,
          accountId |-> account.accountId]
    ELSE IF ~account.configured
    THEN [pc |-> "returned", why |-> "not configured", p |-> None,
          accountId |-> account.accountId]
    ELSE [pc |-> "running", why |-> "started",
          accountId |-> account.accountId,
          p |-> Some(CapturedPolicy(account, OrElse(account.config.dm, EmptyDm)))]

\* monitorFeishuProvider up to the point where it waits for the abort
\* signal: the early returns, and the handler registered with the captured
\* values
monitorFeishuProvider(feishuConfig, e, accountId) ==
    MonitorAccount(feishuConfig, resolveFeishuAccount(feishuConfig, e, accountId))

(***************************************************************************)
(* The inputs of the monitor specification                                 *)
(***************************************************************************)
DmConfigs ==
    {None} \cup
    {Some([enabled |-> en, policy |-> po, allowFrom |-> al]) :
        en \in {None, Some(TRUE), Some(FALSE)},
        po \in {None, Some("pairing"), Some("allowlist"), Some("open"),
                Some("disabled"), Some("bogus")},
        al \in {None, Some(<<ou_1>>), Some(<<Star>>)}}

GroupsConfigs ==
    {None,
     Some(<< [id |-> "oc_1", config |-> [allow |-> Some(FALSE), users |-> Some(<<ou_1>>)]] >>),
     Some(<< [id |-> "oc_1", config |-> [allow |-> Some(TRUE), users |-> None]] >>),
     Some(<< [id |-> "oc_1", config |-> [allow |-> Some(TRUE), users |-> Some(<<>>)]] >>),
     Some(<< [id |-> "oc_1", config |-> [allow |-> Some(TRUE), users |-> Some(<<ou_1>>)]] >>)}

GroupPolicies ==
    {None, Some("allowlist"), Some("open"), Some("disabled"), Some("bogus")}

Credentials ==
    { <<Some(Chars_cli_x), Some(Chars_secret)>>, <<None, Some(Chars_secret)>> }

MonitorConfigs ==
    {[EmptyConfig EXCEPT !.enabled = en, !.appId = cr[1], !.appSecret = cr[2],
                         !.dm = d, !.groupPolicy = gp, !.groups = g,
                         !.groupAllowFrom = gaf] :
        en \in {None, Some(FALSE)}, cr \in Credentials, d \in DmConfigs,
        gp \in GroupPolicies, g \in GroupsConfigs,
        gaf \in {None, Some(<<ou_2>>)}}

Senders ==
    {[sender_id |-> Some([open_id |-> Some(ou_1), user_id |-> None])],
     [sender_id |-> Some([open_id |-> None, user_id |-> Some(ou_2)])]}

TextHi == <<"h","i">>

TextAtBot == <<"@","b","o","t"," ","h","i">>

\* message_type and content: content is None when JSON.parse throws
Payloads ==
    {[message_type |-> "text", content |-> Some([text |-> Some(TextHi)])],
     [message_type |-> "text", content |-> Some([text |-> Some(TextAtBot)])],
     [message_type |-> "text", content |-> Some([text |-> Some(<<" ">>)])],
     [message_type |-> "text", content |-> Some([text |-> None])],
     [message_type |-> "text", content |-> None],
     [message_type |-> "image", content |-> Some([text |-> None])]}

TextPayloads == {pl \in Payloads : pl.content \in {Some([text |-> Some(TextHi)]),
                                                   Some([text |-> Some(TextAtBot)])}}

MentionLists == {None, Some(<<[name |-> "bot"]>>), Some(<<[name |-> "alice"]>>)}

Event(s, ct, chat, pl, m) ==
    [sender |-> s,
     message |-> [chat_type |-> ct, chat_id |-> chat,
                  message_type |-> pl.message_type, content |-> pl.content,
                  mentions |-> m]]

Events ==
    {Event(s, ct, "oc_1", pl, None) :
        s \in Senders, ct \in {"p2p", "group", "topic"}, pl \in Payloads}
    \cup
    {Event(s, "group", chat, pl, m) :
        s \in Senders, chat \in {"oc_1", "oc_2"}, pl \in TextPayloads,
        m \in MentionLists}

NoCall == [fn |-> "none"]

(***************************************************************************)
(* The monitor specification                                               *)
(***************************************************************************)
Init ==
    /\ cfg \in {None} \cup {Some(c) : c \in MonitorConfigs}
    /\ env = EmptyEnv
    /\ mon = [pc |-> "idle", why |-> "", p |-> None]
    /\ last = None
    /\ CacheEmpty
    /\ StreamIdle
    /\ call = NoCall

\* the account ids gateway.startAccount is called with: the ids the plugin
\* lists for the host (config.listAccountIds), or none
StartableIds(feishuConfig) ==
    {None} \cup {Some(listFeishuAccountIds(feishuConfig)[i]) :
                    i \in DOMAIN listFeishuAccountIds(feishuConfig)}

\* the end of monitorFeishuProvider: wsClient.start(), then the promise that
\* resolves at once when the signal is already aborted
StartStream(m) ==
    /\ mon' = IF m.pc = "running" /\ abortSignal
              THEN [m EXCEPT !.pc = "returned", !.why = "aborted"]
              ELSE m
    /\ ws' = IF m.pc = "running" THEN "started" ELSE ws

\* gateway.startAccount calls monitorFeishuProvider for an account id
StartMonitor ==
    /\ mon.pc = "idle"
    /\ \E accountId \in StartableIds(cfg) :
         StartStream(monitorFeishuProvider(cfg, env, accountId))
    /\ UNCHANGED <<cfg, env, last, call, cacheVars, abortSignal, handled>>

\* the outcomes of the host's reply pipeline, autoReply.handleIncomingMessage
PipelineOutcomes == {"resolves", "rejects"}

\* the event stream delivers an im.message.receive_v1 event to the handler
\* registered with the captured values
DeliverEvent(data, pipeline) ==
    /\ ws = "started"
    /\ last = None
    /\ last' = Some(EventHandler(data, Get(mon.p), pipeline))
    /\ UNCHANGED <<cfg, env, mon, call, cacheVars, ws, abortSignal>>

Receive ==
    /\ \E data \in Events, pipeline \in PipelineOutcomes :
         DeliverEvent(data, pipeline)
    /\ UNCHANGED handled

\* the handler's promise has settled: the stream is ready for the next event
Settle ==
    /\ last # None
    /\ last' = None
    /\ UNCHANGED <<cfg, env, mon, call, cacheVars, streamVars>>

Next == StartMonitor \/ Receive \/ Settle

Spec == Init /\ [][Next]_vars

(***************************************************************************)
(* isAllowed as a function of its arguments                                *)
(***************************************************************************)
\* the longest allowlist drawn
MaxAllowLen == 2

\* the most named accounts drawn
MaxAccounts == 2

SeqsUpTo(S, n) == UNION {[1..k -> S] : k \in 0..n}

OU_1 == <<"O","U","_","1">>

ou_3 == <<"o","u","_","3">>

AllowEntries ==
    {Star,
     <<"f","e","i","s","h","u",":","*">>,
     <<"l","a","r","k",":"," ","*"," ">>,
     ou_1,
     <<"L","A","R","K",":","o","u","_","1">>,
     OU_1,
     <<" ","o","u","_","2"," ">>}

SenderIds == {ou_1, ou_2, ou_3, OU_1, <<>>}

InitAllowed ==
    /\ cfg = None
    /\ env = EmptyEnv
    /\ mon = [pc |-> "idle", why |-> "", p |-> None]
    /\ last = None
    /\ CacheEmpty
    /\ StreamIdle
    /\ call \in {[fn |-> "isAllowed", id |-> id, allowList |-> al, ret |-> None] :
                    id \in SenderIds, al \in SeqsUpTo(AllowEntries, MaxAllowLen)}

CallIsAllowed ==
    /\ call.fn = "isAllowed"
    /\ call.ret = None
    /\ call' = [call EXCEPT !.ret = Some(isAllowed(call.id, call.allowList))]
    /\ UNCHANGED <<cfg, env, mon, last, cacheVars, streamVars>>

NextAllowed == CallIsAllowed

SpecAllowed == InitAllowed /\ [][NextAllowed]_vars

(***************************************************************************)
(* listFeishuAccountIds as a function of the configuration                 *)
(***************************************************************************)
work == <<"w","o","r","k">>

AccountIds == {DEFAULT_ACCOUNT_ID, work, <<"2">>, <<"1","0">>}

\* the accounts mappings: distinct keys in declaration order
AccountsMaps ==
    {[i \in 1..Len(ks) |-> [id |-> ks[i], config |-> EmptyConfig]] :
        ks \in {q \in SeqsUpTo(AccountIds, MaxAccounts) :
                    \A i, j \in 1..Len(q) : i # j => q[i] # q[j]}}

ListConfigs ==
    {[EmptyConfig EXCEPT !.enabled = en, !.appId = id, !.appSecret = sec,
                         !.accounts = acc] :
        en \in {None, Some(TRUE), Some(FALSE)},
        id \in {None, Some(<<>>), Some(Chars_cli_x)},
        sec \in {None, Some(<<>>), Some(Chars_secret)},
        acc \in {None} \cup {Some(m) : m \in AccountsMaps}}

InitList ==
    /\ cfg \in {None} \cup {Some(c) : c \in ListConfigs}
    /\ env = EmptyEnv
    /\ mon = [pc |-> "idle", why |-> "", p |-> None]
    /\ last = None
    /\ CacheEmpty
    /\ StreamIdle
    /\ call = [fn |-> "listFeishuAccountIds", ret |-> None]

CallListAccountIds ==
    /\ call.fn = "listFeishuAccountIds"
    /\ call.ret = None
    /\ call' = [call EXCEPT !.ret = Some(listFeishuAccountIds(cfg))]
    /\ UNCHANGED <<cfg, env, mon, last, cacheVars, streamVars>>

NextList == CallListAccountIds

SpecList == InitList /\ [][NextList]_vars

(***************************************************************************)
(* Vocabulary of the properties                                            *)
(***************************************************************************)
\* an inbound event has been handled; H is the record of what was done
Handled == last # None

H == Get(last)

\* the account configuration in force and its dm section
AccountConfig == OrElse(cfg, EmptyConfig)

Dm == OrElse(AccountConfig.dm, EmptyDm)

DmAllowFrom == OrElse(Dm.allowFrom, <<>>)

GroupAllowFrom == OrElse(AccountConfig.groupAllowFrom, <<>>)

GroupConfigOf(chatId) == Lookup(OrElse(AccountConfig.groups, <<>>), chatId)

IsDirect == H.data.message.chat_type = "p2p"

IsGroup == H.data.message.chat_type = "group"

Sender == SenderIdOf(H.data)

MessageText == OrElse(Get(H.data.message.content).text, <<>>)

\* a text message whose content parses to a non-blank text
Readable ==
    /\ H.data.message.message_type = "text"
    /\ IsSome(H.data.message.content)
    /\ Trim(MessageText) # <<>>

\* the event reached the host reply pipeline
Forwarded ==
    \E i \in DOMAIN H.calls : H.calls[i].fn = "autoReply.handleIncomingMessage"

\* a pairing flow was initiated: a host call other than the reply pipeline
PairingInitiated ==
    \E i \in DOMAIN H.calls : H.calls[i].fn # "autoReply.handleIncomingMessage"

\* the bot is mentioned: by the mention list or by a host mention pattern
BotMentioned ==
    \/ /\ IsSome(H.data.message.mentions)
       /\ \E i \in DOMAIN Get(H.data.message.mentions) :
            Get(H.data.message.mentions)[i].name = "bot"
    \/ \E i \in DOMAIN buildMentionRegexes :
            Contains(MessageText, buildMentionRegexes[i])

Returned == call.ret # None

(***************************************************************************)
(* Properties                                                              *)
(***************************************************************************)
\* C1: an event reaches the reply pipeline only if the DM policy check (for a
\* direct message) or the group policy check (for a group message) accepted
\* it, whatever its chat_type.
C1_ForwardedOnlyIfPolicyAccepted ==
    (Handled /\ Forwarded) =>
        \/ IsDirect /\ H.dmPassed
        \/ IsGroup /\ H.groupPassed

\* C2: a direct message under dm.policy "pairing" (or unset) is accepted when
\* the sender matches dm.allowFrom, and otherwise a pairing flow is initiated
\* for the sender.
C2_PairingRequired ==
    (Handled /\ IsDirect /\ Readable /\ Dm.enabled # Some(FALSE)
       /\ Dm.policy \in {None, Some("pairing")}) =>
        IF isAllowed(Sender, DmAllowFrom) THEN Forwarded
        ELSE PairingInitiated /\ ~Forwarded

\* C3: an unrecognized dm.policy or groupPolicy is treated as allowlist: a
\* direct message whose sender does not match dm.allowFrom is rejected, and a
\* group message for a chat whose allow is not true is rejected.
C3_UnrecognizedPolicyRejects ==
    (Handled /\ Readable) =>
        /\ (IsDirect /\ Dm.enabled # Some(FALSE)
              /\ Dm.policy \notin {None, Some("pairing"), Some("allowlist"),
                                   Some("open"), Some("disabled")}
              /\ ~isAllowed(Sender, DmAllowFrom))
           => ~Forwarded
        /\ (IsGroup
              /\ AccountConfig.groupPolicy \notin
                    {None, Some("open"), Some("allowlist"), Some("disabled")}
              /\ ~GroupAllowed(GroupConfigOf(H.data.message.chat_id)))
           => ~Forwarded

\* C4: under dm.policy "allowlist" with dm.enabled not false, a direct message
\* is forwarded if and only if its sender matches dm.allowFrom; a rejected
\* message causes no host call at all.
C4_AllowlistDm ==
    (Handled /\ IsDirect /\ Readable /\ Dm.enabled # Some(FALSE)
       /\ Dm.policy = Some("allowlist")) =>
        /\ Forwarded <=> isAllowed(Sender, DmAllowFrom)
        /\ ~Forwarded => H.calls = <<>>

C4_Witness ==
    /\ Handled /\ IsDirect /\ Readable
    /\ Dm.enabled # Some(FALSE) /\ Dm.policy = Some("allowlist")
    /\ DmAllowFrom = <<ou_1>> /\ Sender = ou_2
    /\ ~Forwarded

\* C5: with dm.enabled false every direct message is rejected, whatever
\* dm.policy and dm.allowFrom are, and the rejection is the one of the
\* dm.enabled check even when dm.policy is "disabled"; dm.policy "disabled"
\* rejects every direct message too.
C5_DmDisabled ==
    (Handled /\ IsDirect) =>
        /\ (Dm.enabled = Some(FALSE) \/ Dm.policy = Some("disabled")) => ~Forwarded
        /\ (Dm.enabled = Some(FALSE) /\ Readable) => H.log = "DM disabled"

C5_Witness ==
    /\ Handled /\ IsDirect /\ Readable
    /\ Dm.enabled = Some(FALSE) /\ Dm.policy = Some("open")
    /\ DmAllowFrom = <<Star>>
    /\ ~Forwarded

\* C6: under groupPolicy "allowlist" (or unset) a group message is forwarded
\* if and only if groups[chatId].allow is true and the sender matches the
\* group's non-empty users list, or, when that list is empty or absent,
\* groupAllowFrom is empty or matches the sender.
C6_AllowlistGroup ==
    (Handled /\ IsGroup /\ Readable
       /\ AccountConfig.groupPolicy \in {None, Some("allowlist")}) =>
        LET g == GroupConfigOf(H.data.message.chat_id)
            users == IF IsSome(g) THEN OrElse(Get(g).users, <<>>) ELSE <<>>
        IN  Forwarded <=>
              /\ IsSome(g)
              /\ Get(g).allow = Some(TRUE)
              /\ IF users # <<>> THEN isAllowed(Sender, users)
                 ELSE GroupAllowFrom = <<>> \/ isAllowed(Sender, GroupAllowFrom)

C6_Witness ==
    /\ Handled /\ IsGroup /\ Readable
    /\ AccountConfig.groupPolicy = Some("allowlist")
    /\ GroupConfigOf(H.data.message.chat_id) =
          Some([allow |-> Some(TRUE), users |-> Some(<<ou_1>>)])
    /\ GroupAllowFrom = <<ou_2>> /\ Sender = ou_2
    /\ ~Forwarded

\* C7: under groupPolicy "open" a group message is forwarded if and only if
\* the bot is mentioned, whatever groups, users and groupAllowFrom are.
C7_OpenGroup ==
    (Handled /\ IsGroup /\ Readable /\ AccountConfig.groupPolicy = Some("open")) =>
        (Forwarded <=> BotMentioned)

C7_Witness ==
    /\ Handled /\ IsGroup /\ Readable
    /\ AccountConfig.groupPolicy = Some("open")
    /\ GroupConfigOf(H.data.message.chat_id) = None
    /\ GroupAllowFrom = <<ou_2>> /\ Sender = ou_1
    /\ BotMentioned /\ Forwarded

\* C8: isAllowed matches an entry and a sender id exactly when they are equal
\* after normalizeEntry (brand prefix stripped, trimmed, lower-cased) or the
\* entry is the wildcard.
C8_NormalizedMatch ==
    (call.fn = "isAllowed" /\ Returned) =>
        (Get(call.ret) <=>
            \E i \in DOMAIN call.allowList :
                \/ normalizeEntry(call.allowList[i]) = normalizeEntry(call.id)
                \/ Trim(StripBrandPrefix(call.allowList[i])) = Star)

\* C9: an allowlist with an entry that is "*" after brand-prefix stripping
\* and trimming matches every sender id; an empty allowlist matches none.
C9_Wildcard ==
    (call.fn = "isAllowed" /\ Returned) =>
        /\ (\E i \in DOMAIN call.allowList :
                Trim(StripBrandPrefix(call.allowList[i])) = Star)
           => Get(call.ret)
        /\ call.allowList = <<>> => ~Get(call.ret)

C9_Witness ==
    /\ call.fn = "isAllowed" /\ Returned
    /\ call.allowList = << <<"l","a","r","k",":"," ","*"," ">> >>
    /\ call.id = ou_3
    /\ Get(call.ret)

\* the keys of accounts as declared, and the base credentials
DeclaredIds ==
    IF IsSome(cfg) /\ IsSome(Get(cfg).accounts)
    THEN [i \in 1..Len(Get(Get(cfg).accounts)) |-> Get(Get(cfg).accounts)[i].id]
    ELSE <<>>

HasBaseCredential ==
    /\ IsSome(cfg)
    /\ \/ Get(cfg).appId \notin {None, Some(<<>>)}
       \/ Get(cfg).appSecret \notin {None, Some(<<>>)}

IsNotDefaultId(id) == id # DEFAULT_ACCOUNT_ID

\* the ids that are to be listed
ListedIds ==
    IF ~IsSome(cfg) THEN {}
    ELSE LET some == (IF HasBaseCredential THEN {DEFAULT_ACCOUNT_ID} ELSE {})
                     \cup {DeclaredIds[i] : i \in DOMAIN DeclaredIds}
         IN  IF some = {} /\ Get(cfg).enabled # Some(FALSE)
             THEN {DEFAULT_ACCOUNT_ID} ELSE some

PositionIn(seq, x) == CHOOSE i \in DOMAIN seq : seq[i] = x

\* C10 as stated: the listed ids without duplicates, the default id first
\* whenever it is listed, then the named ids in declaration order.
C10_DefaultFirstDeclarationOrder ==
    (call.fn = "listFeishuAccountIds" /\ Returned) =>
        Get(call.ret) =
            (IF DEFAULT_ACCOUNT_ID \in ListedIds THEN <<DEFAULT_ACCOUNT_ID>> ELSE <<>>)
            \o SelectSeq(DeclaredIds, IsNotDefaultId)

\* C10 amended: the listed ids without duplicates; the default id is first
\* only when the base config has a credential (or it is the only id), an
\* accounts key equal to the default id otherwise keeps its place among the
\* keys; the keys come in own-property order: integer-like keys ascending,
\* then the other keys in declaration order.
C10_ListedInKeyOrder ==
    (call.fn = "listFeishuAccountIds" /\ Returned) =>
        LET ids == Get(call.ret)
            Before(a, b) ==
                \/ HasBaseCredential /\ a = DEFAULT_ACCOUNT_ID
                \/ /\ ~(HasBaseCredential /\ b = DEFAULT_ACCOUNT_ID)
                   /\ \/ IsArrayIndex(a) /\ IsArrayIndex(b) /\ NumeralLess(a, b)
                      \/ IsArrayIndex(a) /\ ~IsArrayIndex(b)
                      \/ /\ ~IsArrayIndex(a) /\ ~IsArrayIndex(b)
                         /\ PositionIn(DeclaredIds, a) < PositionIn(DeclaredIds, b)
        IN  /\ {ids[i] : i \in DOMAIN ids} = ListedIds
            /\ \A i, j \in DOMAIN ids : i # j => ids[i] # ids[j]
            /\ \A i, j \in DOMAIN ids : i < j => Before(ids[i], ids[j])

C10_Witness ==
    /\ call.fn = "listFeishuAccountIds" /\ Returned
    /\ ~HasBaseCredential
    /\ Get(call.ret) = <<work, DEFAULT_ACCOUNT_ID>>

(***************************************************************************)
(* resolveFeishuAccount as a function of the configuration, the            *)
(* environment and the requested account id                                *)
(***************************************************************************)
other == <<"o","t","h","e","r">>

\* accounts: { work: c }
WorkAccount(c) == << [id |-> work, config |-> c] >>

\* configurations and environments that vary the credentials and the enabled
\* switch of the base config and of the named account
CredentialInputs ==
    {[cfg |-> Some([EmptyConfig EXCEPT
                      !.appId = bi, !.appSecret = bs, !.enabled = be,
                      !.accounts = Some(WorkAccount(
                          [EmptyConfig EXCEPT !.appId = ni, !.appSecret = ns,
                                              !.enabled = ne]))]),
      env |-> [EmptyEnv EXCEPT !.FEISHU_APP_ID = fi, !.LARK_APP_ID = li,
                               !.FEISHU_APP_SECRET = fs, !.LARK_APP_SECRET = ls]] :
        bi \in {None, Some(<<>>), Some(Chars_cli_base)},
        bs \in {None, Some(Chars_sec_base)},
        be \in {None, Some(TRUE), Some(FALSE)},
        ni \in {None, Some(<<>>), Some(Chars_cli_work)},
        ns \in {None, Some(<<>>), Some(Chars_sec_work)},
        ne \in {None, Some(TRUE), Some(FALSE)},
        fi \in {None, Some(<<>>), Some(Chars_cli_env)},
        li \in {None, Some(Chars_cli_lark)},
        fs \in {None, Some(Chars_sec_env)},
        ls \in {None, Some(Chars_sec_lark)}}

\* configurations and environments that vary the event-decryption fields and
\* the domain
DispatcherInputs ==
    {[cfg |-> Some([EmptyConfig EXCEPT
                      !.appId = Some(Chars_cli_base), !.appSecret = Some(Chars_sec_base),
                      !.encryptKey = bk, !.verificationToken = bt, !.domain = bd,
                      !.accounts = Some(WorkAccount(
                          [EmptyConfig EXCEPT !.encryptKey = nk,
                                              !.verificationToken = nt,
                                              !.domain = nd]))]),
      env |-> [EmptyEnv EXCEPT
                 !.FEISHU_ENCRYPT_KEY = fk, !.LARK_ENCRYPT_KEY = lk,
                 !.FEISHU_VERIFICATION_TOKEN = ft,
                 !.LARK_VERIFICATION_TOKEN = lt]] :
        bk \in {None, Some("ek_base")},
        bt \in {None, Some("vt_base")},
        bd \in {None, Some("lark")},
        nk \in {None, Some("ek_work")},
        nt \in {None, Some("vt_work")},
        nd \in {None, Some("feishu"), Some("lark")},
        fk \in {None, Some("ek_env")},
        lk \in {None, Some("ek_lark")},
        ft \in {None, Some("vt_env")},
        lt \in {None, Some("vt_lark")}}

\* no feishu section, or a feishu section without accounts
BareInputs ==
    {[cfg |-> c,
      env |-> [EmptyEnv EXCEPT !.FEISHU_APP_ID = fi, !.LARK_APP_ID = li,
                               !.FEISHU_APP_SECRET = fs, !.LARK_APP_SECRET = ls]] :
        c \in {None, Some(EmptyConfig),
               Some([EmptyConfig EXCEPT !.appSecret = Some(Chars_sec_base)]),
               Some([EmptyConfig EXCEPT !.enabled = Some(FALSE)])},
        fi \in {None, Some(Chars_cli_env)},
        li \in {None, Some(Chars_cli_lark)},
        fs \in {None, Some(Chars_sec_env)},
        ls \in {None, Some(Chars_sec_lark)}}

\* an accounts mapping with an entry keyed by the default id, before an
\* entry of a named account
DefaultKeyInputs ==
    {[cfg |-> Some([EmptyConfig EXCEPT
                      !.appId = bi, !.appSecret = Some(Chars_sec_base),
                      !.accounts = Some(
                          << [id |-> DEFAULT_ACCOUNT_ID,
                              config |-> [EmptyConfig EXCEPT
                                            !.appId = Some(Chars_cli_work),
                                            !.appSecret = Some(Chars_sec_work),
                                            !.enabled = Some(FALSE)]],
                             [id |-> work,
                              config |-> [EmptyConfig EXCEPT
                                            !.appId = Some(Chars_cli_work)]] >>)]),
      env |-> [EmptyEnv EXCEPT !.FEISHU_APP_ID = fi]] :
        bi \in {None, Some(Chars_cli_base)},
        fi \in {None, Some(Chars_cli_env)}}

ResolveInputs ==
    CredentialInputs \cup DispatcherInputs \cup BareInputs \cup DefaultKeyInputs

RequestedIds == {None, Some(DEFAULT_ACCOUNT_ID), Some(work), Some(other)}

InitResolve ==
    /\ \E in \in ResolveInputs : cfg = in.cfg /\ env = in.env
    /\ mon = [pc |-> "idle", why |-> "", p |-> None]
    /\ last = None
    /\ CacheEmpty
    /\ StreamIdle
    /\ call \in {[fn |-> "resolveFeishuAccount", accountId |-> a, ret |-> None] :
                    a \in RequestedIds}

CallResolveAccount ==
    /\ call.fn = "resolveFeishuAccount"
    /\ call.ret = None
    /\ call' = [call EXCEPT
                    !.ret = Some(resolveFeishuAccount(cfg, env, call.accountId))]
    /\ UNCHANGED <<cfg, env, mon, last, cacheVars, streamVars>>

NextResolve == CallResolveAccount

SpecResolve == InitResolve /\ [][NextResolve]_vars

\* the account record returned by the call
Resolved == Get(call.ret)

\* the named account selected by the resolved id: the accounts entry of that
\* id, for an id other than the default id
NamedAccount ==
    IF Resolved.accountId # DEFAULT_ACCOUNT_ID /\ IsSome(AccountConfig.accounts)
    THEN Lookup(Get(AccountConfig.accounts), Resolved.accountId)
    ELSE None

\* the named account's field if set, else the base field
ConfigField(f) ==
    IF IsSome(NamedAccount) /\ IsSome(Get(NamedAccount)[f])
    THEN Get(NamedAccount)[f]
    ELSE AccountConfig[f]

\* ... else the FEISHU_* variable, else the LARK_* variable
FieldOrEnv(f, feishuVar, larkVar) ==
    IF IsSome(ConfigField(f)) THEN ConfigField(f)
    ELSE IF IsSome(env[feishuVar]) THEN env[feishuVar]
    ELSE env[larkVar]

NonEmpty(o) == IsSome(o) /\ Get(o) # <<>>

\* C11: each of appId, appSecret, encryptKey and verificationToken is the
\* named account's field if set, else the base field, else the FEISHU_*
\* variable, else the LARK_* variable; domain is the named account's, else the
\* base's, else "feishu".  A field present in the merged config is returned
\* whatever the environment holds.
C11_MergePrecedence ==
    (call.fn = "resolveFeishuAccount" /\ Returned) =>
        /\ Resolved.appId = FieldOrEnv("appId", "FEISHU_APP_ID", "LARK_APP_ID")
        /\ Resolved.appSecret =
              FieldOrEnv("appSecret", "FEISHU_APP_SECRET", "LARK_APP_SECRET")
        /\ Resolved.encryptKey =
              FieldOrEnv("encryptKey", "FEISHU_ENCRYPT_KEY", "LARK_ENCRYPT_KEY")
        /\ Resolved.verificationToken =
              FieldOrEnv("verificationToken", "FEISHU_VERIFICATION_TOKEN",
                         "LARK_VERIFICATION_TOKEN")
        /\ Resolved.domain = OrElse(ConfigField("domain"), "feishu")
        /\ \A f \in {"appId", "appSecret", "encryptKey", "verificationToken"} :
              IsSome(Resolved.config[f]) => Resolved[f] = Resolved.config[f]

\* the named account's appId wins over the base's and the environment's; the
\* appSecret, absent from the config, comes from FEISHU_APP_SECRET although
\* LARK_APP_SECRET is set too
C11_Witness ==
    /\ call.fn = "resolveFeishuAccount" /\ Returned
    /\ Resolved.accountId = work
    /\ AccountConfig.appId = Some(Chars_cli_base)
    /\ env.FEISHU_APP_ID = Some(Chars_cli_env)
    /\ Resolved.appId = Some(Chars_cli_work)
    /\ ~IsSome(Resolved.config.appSecret)
    /\ env.LARK_APP_SECRET = Some(Chars_sec_lark)
    /\ Resolved.appSecret = Some(Chars_sec_env)

\* C12: the call returns a record for every configuration and environment,
\* with configured = (appId and appSecret non-empty after merge and
\* environment fallback) and enabled = (configured and the merged enabled
\* switch is not false); so enabled implies configured.
C12_ConfiguredEnabled ==
    (call.fn = "resolveFeishuAccount" /\ Returned) =>
        /\ Resolved.configured =
              (/\ NonEmpty(FieldOrEnv("appId", "FEISHU_APP_ID", "LARK_APP_ID"))
               /\ NonEmpty(FieldOrEnv("appSecret", "FEISHU_APP_SECRET",
                                      "LARK_APP_SECRET")))
        /\ Resolved.enabled =
              (Resolved.configured /\ ConfigField("enabled") # Some(FALSE))
        /\ Resolved.enabled => Resolved.configured

\* no feishu section and only an appId in the environment: a record comes
\* back, neither configured nor enabled
C12_Witness ==
    /\ call.fn = "resolveFeishuAccount" /\ Returned
    /\ cfg = None
    /\ env.FEISHU_APP_ID = Some(Chars_cli_env)
    /\ ~IsSome(Resolved.appSecret)
    /\ ~Resolved.configured /\ ~Resolved.enabled

\* the resolved id is a key of accounts other than the default id
IsNamedKey ==
    /\ Resolved.accountId # DEFAULT_ACCOUNT_ID
    /\ \E i \in DOMAIN OrElse(AccountConfig.accounts, <<>>) :
          Get(AccountConfig.accounts)[i].id = Resolved.accountId

\* the accounts entry of the resolved id
NamedEntry ==
    Get(AccountConfig.accounts)[
        CHOOSE i \in DOMAIN Get(AccountConfig.accounts) :
            Get(AccountConfig.accounts)[i].id = Resolved.accountId].config

BaseOrEnv(f, feishuVar, larkVar) ==
    IF IsSome(AccountConfig[f]) THEN AccountConfig[f]
    ELSE IF IsSome(env[feishuVar]) THEN env[feishuVar]
    ELSE env[larkVar]

\* C28: a named entry is overlaid only when the requested id differs from the
\* default id and is a key of accounts; for the default id, even when
\* accounts has an entry keyed by it, and for an id that is no key of
\* accounts, the merged config is the base config and the record carries the
\* requested id with the base (or environment) credentials.
C28_OverlayOnlyForNamedKey ==
    (call.fn = "resolveFeishuAccount" /\ Returned) =>
        /\ IsSome(call.accountId) => Resolved.accountId = Get(call.accountId)
        /\ IsNamedKey =>
              \A f \in DOMAIN EmptyConfig :
                  Resolved.config[f] = IF IsSome(NamedEntry[f]) THEN NamedEntry[f]
                                       ELSE AccountConfig[f]
        /\ ~IsNamedKey =>
              /\ Resolved.config = AccountConfig
              /\ Resolved.appId = BaseOrEnv("appId", "FEISHU_APP_ID", "LARK_APP_ID")
              /\ Resolved.appSecret =
                    BaseOrEnv("appSecret", "FEISHU_APP_SECRET", "LARK_APP_SECRET")

\* the default id is requested, accounts has an entry keyed by the default
\* id with other credentials and enabled false: the base config is returned
C28_Witness ==
    /\ call.fn = "resolveFeishuAccount" /\ Returned
    /\ call.accountId = Some(DEFAULT_ACCOUNT_ID)
    /\ IsSome(AccountConfig.accounts)
    /\ \E i \in DOMAIN Get(AccountConfig.accounts) :
          /\ Get(AccountConfig.accounts)[i].id = DEFAULT_ACCOUNT_ID
          /\ Get(AccountConfig.accounts)[i].config.appId = Some(Chars_cli_work)
          /\ Get(AccountConfig.accounts)[i].config.enabled = Some(FALSE)
    /\ Resolved.accountId = DEFAULT_ACCOUNT_ID
    /\ Resolved.appId = Some(Chars_cli_base)
    /\ Resolved.enabled
    /\ Resolved.config = AccountConfig

(***************************************************************************)
(* The running monitor and a configuration store that changes              *)
(***************************************************************************)
\* configurations the store may hold: all with credentials, differing in the
\* DM allowlist and the group policy
LiveConfigs ==
    {[EmptyConfig EXCEPT
        !.appId = Some(Chars_cli_x), !.appSecret = Some(Chars_secret),
        !.dm = Some([enabled |-> None, policy |-> Some("allowlist"),
                     allowFrom |-> Some(al)]),
        !.groupPolicy = gp] :
        al \in {<<ou_1>>, <<ou_1, ou_2>>, <<>>},
        gp \in {Some("allowlist"), Some("open"), Some("disabled")}}

InitLive ==
    /\ cfg \in {Some(c) : c \in LiveConfigs}
    /\ env = EmptyEnv
    /\ mon = [pc |-> "idle", why |-> "", p |-> None]
    /\ last = None
    /\ CacheEmpty
    /\ StreamIdle
    /\ call = NoCall

\* the host's configuration store is edited between two events: from now on
\* core.config.loadConfig() returns the new configuration
ConfigChange ==
    /\ last = None
    /\ \E c \in LiveConfigs : c # Get(cfg) /\ cfg' = Some(c)
    /\ UNCHANGED <<env, mon, last, call, cacheVars, streamVars>>

NextLive == StartMonitor \/ Receive \/ Settle \/ ConfigChange

SpecLive == InitLive /\ [][NextLive]_vars

\* what the monitor would capture from the configuration that is live now,
\* for the account it was started for
LiveMonitor == monitorFeishuProvider(cfg, env, Some(Get(mon.p).accountId))

PrintableChars ==
    <<
      " ","!","\"","#","$","%","&","'","(",")","*","+",",","-",".","/",
      "0","1","2","3","4","5","6","7","8","9",":",";","<","=",">","?",
      "@","A","B","C","D","E","F","G","H","I","J","K","L","M","N","O",
      "P","Q","R","S","T","U","V","W","X","Y","Z","[","\\","]","^","_",
      "grave","a","b","c","d","e","f","g","h","i","j","k","l","m","n","o",
      "p","q","r","s","t","u","v","w","x","y","z","{","|","}","~" >>

\* the one byte Buffer.from(secret) holds for a printable ASCII character
CharCode(c) == 31 + (CHOOSE i \in DOMAIN PrintableChars : PrintableChars[i] = c)

\* Buffer.from(secret): the UTF-8 bytes of an ASCII string
BufferFrom(secret) == [i \in 1..Len(secret) |-> CharCode(secret[i])]

\* the base64 alphabet, by sextet value
Base64Chars ==
    <<
      "A","B","C","D","E","F","G","H","I","J","K","L","M","N","O","P",
      "Q","R","S","T","U","V","W","X","Y","Z","a","b","c","d","e","f",
      "g","h","i","j","k","l","m","n","o","p","q","r","s","t","u","v",
      "w","x","y","z","0","1","2","3","4","5","6","7","8","9","+","/" >>

Sextet(n) == Base64Chars[n + 1]

\* buf.toString("base64"): three bytes give four characters, a remainder of
\* one or two bytes is padded with "="
RECURSIVE Base64(_)
Base64(b) ==
    IF Len(b) = 0 THEN <<>>
    ELSE IF Len(b) = 1
    THEN << Sextet(b[1] \div 4), Sextet((b[1] % 4) * 16), "=", "=" >>
    ELSE IF Len(b) = 2
    THEN << Sextet(b[1] \div 4), Sextet((b[1] % 4) * 16 + b[2] \div 16),
            Sextet((b[2] % 16) * 4), "=" >>
    ELSE << Sextet(b[1] \div 4), Sextet((b[1] % 4) * 16 + b[2] \div 16),
            Sextet((b[2] % 16) * 4 + b[3] \div 64), Sextet(b[3] % 64) >>
         \o Base64(SubSeq(b, 4, Len(b)))

\* String.prototype.slice(0, n)
SliceTo(s, n) == SubSeq(s, 1, IF Len(s) < n THEN Len(s) ELSE n)

hashSecret(secret) == SliceTo(Base64(BufferFrom(secret)), 8)

\* `${value}` of an optional string
TemplateString(o) ==
    IF IsSome(o) THEN Get(o) ELSE <<"u","n","d","e","f","i","n","e","d">>

\* `${account.accountId}:${account.appId}:${secretHash}`
CacheKey(account) ==
    account.accountId \o <<":">> \o TemplateString(account.appId) \o <<":">>
    \o (IF TruthyStr(account.appSecret) THEN hashSecret(Get(account.appSecret))
        ELSE <<>>)

\* Map.prototype.get
MapGet(entries, key) ==
    IF \E i \in DOMAIN entries : entries[i].key = key
    THEN Some(entries[CHOOSE i \in DOMAIN entries : entries[i].key = key].value)
    ELSE None

\* Map.prototype.set of a key the map does not hold
MapSet(entries, key, value) == Append(entries, [key |-> key, value |-> value])

\* new lark.Client({ appId, appSecret, domain, loggerLevel })
NewClient(account) ==
    [appId |-> Get(account.appId), appSecret |-> Get(account.appSecret),
     domain |-> IF account.domain = "lark" THEN "Lark" ELSE "Feishu"]

\* getFeishuClient after the cache key is computed: the map after the call,
\* the clients constructed so far, and the client returned (absent when the
\* call throws)
GetClientByKey(cache, heap, account, cacheKey) ==
    IF IsSome(MapGet(cache, cacheKey))
    THEN [clientCache |-> cache, clients |-> heap, threw |-> FALSE,
          constructed |-> FALSE, client |-> MapGet(cache, cacheKey)]
    ELSE IF ~TruthyStr(account.appId) \/ ~TruthyStr(account.appSecret)
    THEN [clientCache |-> cache, clients |-> heap, threw |-> TRUE,
          constructed |-> FALSE, client |-> None]
    ELSE [clientCache |-> MapSet(cache, cacheKey, Len(heap) + 1),
          clients |-> Append(heap, NewClient(account)), threw |-> FALSE,
          constructed |-> TRUE, client |-> Some(Len(heap) + 1)]

getFeishuClient(cache, heap, account) ==
    GetClientByKey(cache, heap, account, CacheKey(account))

\* clearFeishuClient: the map without the keys that start with `${accountId}:`
clearFeishuClient(cache, accountId) ==
    SelectSeq(cache, LAMBDA en : ~StartsWith(en.key, accountId \o <<":">>))

Chars_cli_a == <<"c","l","i","_","a">>

Chars_cli_b == <<"c","l","i","_","b">>

Chars_secret1 == <<"s","e","c","r","e","t","1">>

Chars_secret2 == <<"s","e","c","r","e","t","2">>

Chars_pw == <<"p","w">>

work_eu == <<"w","o","r","k",":","e","u">>

CachedAccount(id, appId, appSecret, domain) ==
    [accountId |-> id, appId |-> appId, appSecret |-> appSecret, domain |-> domain]

\* the resolved accounts presented to getFeishuClient: one account under
\* successive credentials, other account ids, and an account without secret
CacheAccounts ==
    {CachedAccount(work, Some(Chars_cli_a), Some(Chars_secret1), "feishu"),
     CachedAccount(work, Some(Chars_cli_a), Some(Chars_secret2), "feishu"),
     CachedAccount(work, Some(Chars_cli_b), Some(Chars_pw), "feishu"),
     CachedAccount(work_eu, Some(Chars_cli_a), Some(Chars_secret1), "lark"),
     CachedAccount(DEFAULT_ACCOUNT_ID, Some(Chars_cli_a), Some(Chars_pw), "feishu"),
     CachedAccount(DEFAULT_ACCOUNT_ID, Some(Chars_cli_a), None, "feishu")}

CacheAccountIds == {a.accountId : a \in CacheAccounts}

\* the most getFeishuClient and clearFeishuClient calls in a run
MaxOps == 4

InitCache ==
    /\ cfg = None
    /\ env = EmptyEnv
    /\ mon = [pc |-> "idle", why |-> "", p |-> None]
    /\ last = None
    /\ call = NoCall
    /\ CacheEmpty
    /\ StreamIdle

\* the record of a getFeishuClient call in ops
GetOp(account, r) ==
    [op |-> "get", accountId |-> account.accountId, account |-> Some(account),
     threw |-> r.threw, constructed |-> r.constructed, client |-> r.client,
     before |-> clientCache, after |-> r.clientCache]

\* the record of a clearFeishuClient call in ops
ClearOp(accountId, after) ==
    [op |-> "clear", accountId |-> accountId, account |-> None,
     threw |-> FALSE, constructed |-> FALSE, client |-> None,
     before |-> clientCache, after |-> after]

DoGet(account, r) ==
    /\ clientCache' = r.clientCache
    /\ clients' = r.clients
    /\ ops' = Append(ops, GetOp(account, r))

\* a send or a probe obtains the client of its account
GetClient ==
    /\ Len(ops) < MaxOps
    /\ \E account \in CacheAccounts :
         DoGet(account, getFeishuClient(clientCache, clients, account))
    /\ UNCHANGED <<cfg, env, mon, last, call, streamVars>>

\* gateway.stopAccount clears the clients of its account
ClearClient ==
    /\ Len(ops) < MaxOps
    /\ \E accountId \in CacheAccountIds :
         /\ clientCache' = clearFeishuClient(clientCache, accountId)
         /\ ops' = Append(ops, ClearOp(accountId,
                                       clearFeishuClient(clientCache, accountId)))
    /\ UNCHANGED <<cfg, env, mon, last, call, clients, streamVars>>

NextCache == GetClient \/ ClearClient

SpecCache == InitCache /\ [][NextCache]_vars

\* the getFeishuClient calls that returned a client
Gets == {i \in DOMAIN ops : ops[i].op = "get" /\ ~ops[i].threw}

Clears == {k \in DOMAIN ops : ops[k].op = "clear"}

ReturnedClient(i) == Get(ops[i].client)

SameCredentials(i, j) ==
    /\ ops[i].accountId = ops[j].accountId
    /\ Get(ops[i].account).appId = Get(ops[j].account).appId
    /\ Get(ops[i].account).appSecret = Get(ops[j].account).appSecret

NoClearBetween(i, j, accountId) ==
    \A k \in Clears : (i < k /\ k < j) => ops[k].accountId # accountId

\* the account id a client was constructed for
OwnerOf(client) ==
    ops[CHOOSE i \in Gets : ops[i].constructed /\ ReturnedClient(i) = client].accountId

\* C14: two getFeishuClient calls with the same accountId, appId and appSecret
\* and no clearFeishuClient of that account between them return the same
\* client object, constructed once; calls for different account ids return
\* different client objects.
C14_ReuseUntilCleared ==
    /\ \A i, j \in Gets :
          (i < j /\ SameCredentials(i, j) /\ NoClearBetween(i, j, ops[i].accountId))
             => (ReturnedClient(j) = ReturnedClient(i) /\ ~ops[j].constructed)
    /\ \A i, j \in Gets :
          ops[i].accountId # ops[j].accountId => ReturnedClient(i) # ReturnedClient(j)

\* C15: the client getFeishuClient returns was constructed with the appId and
\* the appSecret of the account passed in.
C15_ClientMatchesCredentials ==
    \A i \in Gets :
        /\ clients[ReturnedClient(i)].appId = Get(Get(ops[i].account).appId)
        /\ clients[ReturnedClient(i)].appSecret = Get(Get(ops[i].account).appSecret)

\* C16: clearFeishuClient(accountId) removes every cached client of that
\* account id and leaves the cached clients of every other account id in the
\* cache.
C16_ClearsOnlyThatAccount ==
    \A k \in Clears :
        /\ \A n \in DOMAIN ops[k].after :
              OwnerOf(ops[k].after[n].value) # ops[k].accountId
        /\ \A n \in DOMAIN ops[k].before :
              OwnerOf(ops[k].before[n].value) # ops[k].accountId
                 => \E m \in DOMAIN ops[k].after :
                        ops[k].after[m] = ops[k].before[n]

\* the account ids getFeishuClient has been called for
AccountIdsInUse == {ops[i].accountId : i \in Gets}

\* C27: the cache never holds two clients of one account id (a call with
\* other credentials for a cached id drops the old entry), so it never holds
\* more clients than there are account ids in use.
C27_OneClientPerAccount ==
    /\ \A m, n \in DOMAIN clientCache :
          m # n => OwnerOf(clientCache[m].value) # OwnerOf(clientCache[n].value)
    /\ Len(clientCache) <= Cardinality(AccountIdsInUse)

(***************************************************************************)
(* Outbound: sendMessageFeishu and sendMediaFeishu                         *)
(***************************************************************************)
RolePrefixes ==
    { <<"c","h","a","t",":">>, <<"o","p","e","n",":">>,
      <<"u","s","e","r",":">>, <<"u","n","i","o","n",":">> }

\* s.replace(/^(chat|open|user|union):/i, "")
StripRolePrefix(s) ==
    IF \E p \in RolePrefixes : StartsWithNoCase(s, p)
    THEN DropPrefix(s, Len(CHOOSE p \in RolePrefixes : StartsWithNoCase(s, p)))
    ELSE s

resolveReceiveIdType(to) ==
    IF StartsWithNoCase(to, <<"o","c","_">>)
       \/ StartsWithNoCase(to, <<"c","h","a","t",":">>) THEN "chat_id"
    ELSE IF StartsWithNoCase(to, <<"o","u","_">>)
            \/ StartsWithNoCase(to, <<"o","p","e","n",":">>) THEN "open_id"
    ELSE IF StartsWithNoCase(to, <<"o","n","_">>)
            \/ StartsWithNoCase(to, <<"u","n","i","o","n",":">>) THEN "union_id"
    ELSE IF StartsWithNoCase(to, <<"u","s","e","r",":">>) THEN "user_id"
    ELSE IF StartsWithNoCase(to, <<"o","c","_">>) THEN "chat_id"
    ELSE "open_id"

normalizeReceiveId(to) == Trim(StripRolePrefix(to))

\* JSON.stringify({ text })
JSONStringify(text) == [json |-> [text |-> text]]

\* client.im.message.reply({ path, data })
ReplyCall(client, replyToId, text) ==
    [fn |-> "im.message.reply", client |-> client,
     path |-> [message_id |-> replyToId],
     data |-> [content |-> JSONStringify(text), msg_type |-> "text"]]

\* client.im.message.create({ params, data })
CreateCall(client, to, text) ==
    [fn |-> "im.message.create", client |-> client,
     params |-> [receive_id_type |-> resolveReceiveIdType(to)],
     data |-> [receive_id |-> normalizeReceiveId(to),
               content |-> JSONStringify(text), msg_type |-> "text"]]

\* { messageId: res.data?.message_id ?? "", chatId: res.data?.chat_id }
SendResult(res) ==
    [messageId |-> IF IsSome(res.data) THEN OrElse(Get(res.data).message_id, "")
                   ELSE "",
     chatId |-> IF IsSome(res.data) THEN Get(res.data).chat_id ELSE None]

\* new Error("Feishu API error: " + msg + " (code: " + code + ")")
ApiError(res) ==
    [name |-> "Error",
     message |-> <<"Feishu API error: ", res.msg, " (code: ", res.code, ")">>]

\* what a send call did: whether it threw and with what, its result, and the
\* vendor calls it made, with the client call it started with
SendOutcome(got, account, threw, error, result, vendorCalls) ==
    [threw |-> threw, error |-> error, result |-> result,
     vendorCalls |-> vendorCalls, account |-> account, got |-> got]

\* a slip: the code of the vendor response is not looked at
AfterVendorCall_IgnoreCode(got, account, vendorCall, res) ==
    IF res.rejected
    THEN SendOutcome(got, account, TRUE, Some([name |-> "Error", message |-> <<res.msg>>]),
                     None, <<vendorCall>>)
    ELSE SendOutcome(got, account, FALSE, None, Some(SendResult(res)), <<vendorCall>>)

\* the awaited vendor call and what follows it: the promise rejects, or the
\* response has a non-zero code, or the result is returned
AfterVendorCall(got, account, vendorCall, res) ==
    IF res.rejected
    THEN SendOutcome(got, account, TRUE, Some([name |-> "Error", message |-> <<res.msg>>]),
                     None, <<vendorCall>>)
    ELSE IF res.code # 0
    THEN SendOutcome(got, account, TRUE, Some(ApiError(res)), None, <<vendorCall>>)
    ELSE SendOutcome(got, account, FALSE, None, Some(SendResult(res)), <<vendorCall>>)

\* a slip: replyToId is ignored
SendWithClient_AlwaysCreate(got, account, to, text, options, res) ==
    IF got.threw
    THEN SendOutcome(got, account, TRUE,
            Some([name |-> "Error",
                  message |-> <<"Feishu appId and appSecret are required">>]),
            None, <<>>)
    ELSE AfterVendorCall(got, account, CreateCall(Get(got.client), to, text), res)

\* sendMessageFeishu from the getFeishuClient call on
SendWithClient(got, account, to, text, options, res) ==
    IF got.threw
    THEN SendOutcome(got, account, TRUE,
            Some([name |-> "Error",
                  message |-> <<"Feishu appId and appSecret are required">>]),
            None, <<>>)
    ELSE IF IsSome(options.replyToId) /\ Get(options.replyToId) # ""
    THEN AfterVendorCall(got, account,
            ReplyCall(Get(got.client), Get(options.replyToId), text), res)
    ELSE AfterVendorCall(got, account, CreateCall(Get(got.client), to, text), res)

SendWithAccount(cache, heap, account, to, text, options, res) ==
    SendWithClient(getFeishuClient(cache, heap, account), account,
                   to, text, options, res)

\* res is what the vendor call yields if it is made
sendMessageFeishu(feishuConfig, e, cache, heap, to, text, options, res) ==
    SendWithAccount(cache, heap,
                    resolveFeishuAccount(feishuConfig, e, options.accountId),
                    to, text, options, res)

\* a slip: the caption is dropped
MediaText_UrlOnly(text, mediaUrl) == mediaUrl

\* text ? text + "\n" + mediaUrl : mediaUrl
MediaText(text, mediaUrl) ==
    IF text # <<>> THEN text \o <<"\n">> \o mediaUrl ELSE mediaUrl

sendMediaFeishu(feishuConfig, e, cache, heap, to, text, mediaUrl, options, res) ==
    sendMessageFeishu(feishuConfig, e, cache, heap, to,
                      MediaText(text, mediaUrl), options, res)

\* the targets handed to a send: tagged ids, ids with a role prefix, with a
\* role prefix that differs from the tag, with a brand prefix, and an id
\* without tag
SendTargets ==
    {
      <<"o","c","_","1">>,
      <<"o","u","_","1">>,
      <<"o","n","_","1">>,
      <<"c","h","a","t",":","o","c","_","1">>,
      <<"C","h","a","t",":","o","c","_","1">>,
      <<"o","p","e","n",":","o","u","_","1">>,
      <<"u","n","i","o","n",":","o","n","_","1">>,
      <<"u","s","e","r",":","u","1">>,
      <<"u","s","e","r",":","o","u","_","1">>,
      <<"o","p","e","n",":","o","c","_","1">>,
      <<"a","b","c">>,
      <<"f","e","i","s","h","u",":","o","c","_","1">>,
      <<"l","a","r","k",":","o","u","_","1">>,
      <<"f","e","i","s","h","u",":","c","h","a","t",":","o","c","_","1">> }

SendOptions ==
    {[accountId |-> a, replyToId |-> r] :
        a \in {None, Some(work)}, r \in {None, Some(""), Some("om_1")}}

SendConfigs ==
    {None,
     Some(EmptyConfig),
     Some([EmptyConfig EXCEPT
             !.appId = Some(Chars_cli_x), !.appSecret = Some(Chars_secret),
             !.accounts = Some(WorkAccount(
                 [EmptyConfig EXCEPT !.appId = Some(Chars_cli_work),
                                     !.appSecret = Some(Chars_sec_work),
                                     !.domain = Some("lark")]))])}

\* what the vendor call yields: a response with code 0 (with or without
\* data, with or without message_id), a response with a non-zero code, or a
\* rejected promise
VendorResponses ==
    {[rejected |-> FALSE, code |-> 0, msg |-> "success",
      data |-> Some([message_id |-> Some("om_9"), chat_id |-> Some("oc_1")])],
     [rejected |-> FALSE, code |-> 0, msg |-> "success",
      data |-> Some([message_id |-> None, chat_id |-> None])],
     [rejected |-> FALSE, code |-> 0, msg |-> "success", data |-> None],
     [rejected |-> FALSE, code |-> 230002, msg |-> "Bot is not in the chat",
      data |-> None],
     [rejected |-> TRUE, code |-> 0, msg |-> "socket hang up", data |-> None]}

SendTexts == { <<"h","i">>, <<>> }

MediaUrls == { <<"h","t","t","p",":","/","/","x">> }

InitSend ==
    /\ cfg \in SendConfigs
    /\ env = EmptyEnv
    /\ mon = [pc |-> "idle", why |-> "", p |-> None]
    /\ last = None
    /\ CacheEmpty
    /\ StreamIdle
    /\ call \in
         {[fn |-> "sendMessageFeishu", to |-> to, text |-> <<"h","i">>,
           mediaUrl |-> None, options |-> o, res |-> None, ret |-> None] :
             to \in SendTargets, o \in SendOptions}
         \cup
         {[fn |-> "sendMediaFeishu", to |-> to, text |-> t,
           mediaUrl |-> Some(u), options |-> o, res |-> None, ret |-> None] :
             to \in {ou_1}, t \in SendTexts, u \in MediaUrls, o \in SendOptions}

\* the call has run: its outcome, the vendor's answer, and the
\* getFeishuClient call it made
DoSend(out, res) ==
    /\ call' = [call EXCEPT !.ret = Some(out), !.res = Some(res)]
    /\ DoGet(out.account, out.got)

CallSendMessage ==
    /\ call.fn = "sendMessageFeishu"
    /\ call.ret = None
    /\ \E res \in VendorResponses :
         DoSend(sendMessageFeishu(cfg, env, clientCache, clients,
                                  call.to, call.text, call.options, res), res)
    /\ UNCHANGED <<cfg, env, mon, last, streamVars>>

CallSendMedia ==
    /\ call.fn = "sendMediaFeishu"
    /\ call.ret = None
    /\ \E res \in VendorResponses :
         DoSend(sendMediaFeishu(cfg, env, clientCache, clients, call.to,
                                call.text, Get(call.mediaUrl), call.options, res),
                res)
    /\ UNCHANGED <<cfg, env, mon, last, streamVars>>

NextSend == CallSendMessage \/ CallSendMedia

SpecSend == InitSend /\ [][NextSend]_vars

\* a send call has run; Sent is what it did
SendReturned ==
    call.fn \in {"sendMessageFeishu", "sendMediaFeishu"} /\ Returned

Sent == Get(call.ret)

VendorAnswer == Get(call.res)

VendorCalled == Len(Sent.vendorCalls) > 0

ReplyToGiven == IsSome(call.options.replyToId) /\ Get(call.options.replyToId) # ""

\* C17: when the vendor call reports a non-zero code, the send rejects with
\* an error that carries the vendor message and the numeric code, returns no
\* result, and has made that one vendor call only.
C17_VendorErrorRejects ==
    (SendReturned /\ VendorCalled /\ ~VendorAnswer.rejected
       /\ VendorAnswer.code # 0) =>
        /\ Sent.threw
        /\ IsSome(Sent.error)
        /\ Get(Sent.error).message[2] = VendorAnswer.msg
        /\ Get(Sent.error).message[4] = VendorAnswer.code
        /\ Sent.result = None
        /\ Len(Sent.vendorCalls) = 1

\* a reply and a media send that failed with the vendor's code
C17_Witness ==
    /\ SendReturned /\ call.fn = "sendMediaFeishu"
    /\ VendorCalled /\ VendorAnswer.code = 230002
    /\ Sent.threw /\ Sent.result = None

\* the vendor call a send made is the right one: a reply to replyToId when a
\* non-empty replyToId is given, otherwise a create to the target; and the
\* returned messageId is the vendor's message_id, or "" when there is none
OneRightVendorCall ==
    /\ Len(Sent.vendorCalls) = 1
    /\ IF ReplyToGiven
       THEN /\ Sent.vendorCalls[1].fn = "im.message.reply"
            /\ Sent.vendorCalls[1].path.message_id = Get(call.options.replyToId)
       ELSE /\ Sent.vendorCalls[1].fn = "im.message.create"
            /\ Contains(call.to, Sent.vendorCalls[1].data.receive_id)
    /\ ~Sent.threw =>
          /\ IsSome(Sent.result)
          /\ Get(Sent.result).messageId =
                (IF IsSome(VendorAnswer.data)
                    /\ IsSome(Get(VendorAnswer.data).message_id)
                 THEN Get(Get(VendorAnswer.data).message_id) ELSE "")

\* C18 as stated: each sendMessageFeishu call makes exactly one vendor call,
\* the reply or the create, and returns the vendor's message_id or "".
C18_ExactlyOneVendorCall ==
    (call.fn = "sendMessageFeishu" /\ Returned) => OneRightVendorCall

\* C18 amended: a sendMessageFeishu call whose account has an appId and an
\* appSecret makes exactly one vendor call, the reply or the create, and
\* returns the vendor's message_id or ""; a call whose account lacks one of
\* them throws before any vendor call.
C18_OneVendorCallWhenConfigured ==
    (call.fn = "sendMessageFeishu" /\ Returned) =>
        IF Sent.account.configured THEN OneRightVendorCall
        ELSE Sent.threw /\ Sent.vendorCalls = <<>> /\ Sent.result = None

\* a reply: the one vendor call is im.message.reply, and the response without
\* message_id gives the empty messageId
C18_Witness ==
    /\ call.fn = "sendMessageFeishu" /\ Returned
    /\ Sent.account.configured /\ ReplyToGiven
    /\ Len(Sent.vendorCalls) = 1
    /\ Sent.vendorCalls[1].fn = "im.message.reply"
    /\ ~Sent.threw /\ Get(Sent.result).messageId = ""

\* the target without its brand prefix
Unbranded == StripBrandPrefix(call.to)

\* the kind of id a target names: by its role prefix if it has one, else by
\* the tag of the id; absent for an id without tag
KindOf(t) ==
    IF StartsWithNoCase(t, <<"c","h","a","t",":">>) THEN Some("chat_id")
    ELSE IF StartsWithNoCase(t, <<"o","p","e","n",":">>) THEN Some("open_id")
    ELSE IF StartsWithNoCase(t, <<"u","n","i","o","n",":">>) THEN Some("union_id")
    ELSE IF StartsWithNoCase(t, <<"u","s","e","r",":">>) THEN Some("user_id")
    ELSE IF StartsWithNoCase(t, <<"o","c","_">>) THEN Some("chat_id")
    ELSE IF StartsWithNoCase(t, <<"o","u","_">>) THEN Some("open_id")
    ELSE IF StartsWithNoCase(t, <<"o","n","_">>) THEN Some("union_id")
    ELSE None

\* C19: the im.message.create call of a send carries as receive_id the
\* target without its brand prefix and its role prefix, and as
\* receive_id_type the kind named by the role prefix, or else by the tag of
\* the id.
C19_ReceiveIdAndType ==
    (call.fn = "sendMessageFeishu" /\ Returned /\ VendorCalled
       /\ Sent.vendorCalls[1].fn = "im.message.create") =>
        /\ Sent.vendorCalls[1].data.receive_id = StripRolePrefix(Unbranded)
        /\ IsSome(KindOf(Unbranded)) =>
              Sent.vendorCalls[1].params.receive_id_type = Get(KindOf(Unbranded))

(***************************************************************************)
(* messaging.normalizeTarget: normalizeFeishuMessagingTarget               *)
(***************************************************************************)
\* String.prototype.indexOf of a character: the 0-based position, -1 if none
IndexOf(s, c) ==
    IF \E i \in DOMAIN s : s[i] = c
    THEN (CHOOSE i \in DOMAIN s : s[i] = c /\ \A j \in 1..(i - 1) : s[j] # c) - 1
    ELSE -1

\* String.prototype.slice(k) for 0 <= k
SliceFrom(s, k) == SubSeq(s, k + 1, Len(s))

\* a slip: every leading role prefix is removed, not just one
StripRoleToTarget_AllRoles(normalized) ==
    IF Trim(StripRolePrefix(Trim(StripRolePrefix(normalized)))) # <<>>
    THEN Some(Trim(StripRolePrefix(Trim(StripRolePrefix(normalized)))))
    ELSE None

\* const stripped = normalized.replace(/^(chat|user|open|union):/i, "").trim();
\* return stripped || undefined
StripRoleToTarget(normalized) ==
    IF Trim(StripRolePrefix(normalized)) # <<>>
    THEN Some(Trim(StripRolePrefix(normalized)))
    ELSE None

\* normalizeFeishuMessagingTarget after raw.trim()
NormalizeTrimmed(normalized) ==
    IF normalized = <<>> THEN None
    ELSE IF StartsWith(ToLowerCase(normalized), FeishuColon)
            \/ StartsWith(ToLowerCase(normalized), LarkColon)
    THEN StripRoleToTarget(
            Trim(SliceFrom(normalized, IndexOf(normalized, ":") + 1)))
    ELSE StripRoleToTarget(normalized)

normalizeFeishuMessagingTarget(raw) == NormalizeTrimmed(Trim(raw))

\* raw targets: optional blanks, an optional brand prefix, an optional role
\* prefix, and an id that may itself look like a prefixed target or be empty
RawTargets ==
    {lead \o brand \o mid \o role \o id \o trail :
        lead \in {<<>>, <<" ">>},
        brand \in {<<>>, <<"f","e","i","s","h","u",":">>, <<"L","a","r","k",":">>},
        mid \in {<<>>, <<" ">>},
        role \in {<<>>, <<"c","h","a","t",":">>, <<"U","s","e","r",":">>, <<"o","p","e","n",":">>, <<"u","n","i","o","n",":">>},
        id \in {<<>>, <<"o","c","_","1">>, <<"f","e","i","s","h","u",":","x">>, <<"c","h","a","t",":","x">>},
        trail \in {<<>>, <<" ">>}}

InitNormalize ==
    /\ cfg = None
    /\ env = EmptyEnv
    /\ mon = [pc |-> "idle", why |-> "", p |-> None]
    /\ last = None
    /\ CacheEmpty
    /\ StreamIdle
    /\ call \in {[fn |-> "normalizeTarget", raw |-> raw, ret |-> None] :
                    raw \in RawTargets}

\* ret holds the returned value: Some(target), or None for undefined
CallNormalizeTarget ==
    /\ call.fn = "normalizeTarget"
    /\ call.ret = None
    /\ call' = [call EXCEPT
                    !.ret = Some(normalizeFeishuMessagingTarget(call.raw))]
    /\ UNCHANGED <<cfg, env, mon, last, cacheVars, streamVars>>

NextNormalize == CallNormalizeTarget

SpecNormalize == InitNormalize /\ [][NextNormalize]_vars

\* the raw target without one brand prefix, then without one role prefix,
\* trimmed at each step
Remainder == Trim(StripRolePrefix(Trim(StripBrandPrefix(Trim(call.raw)))))

\* C20 as stated: one brand prefix and then one role prefix are stripped and
\* the trimmed remainder is returned; a string without prefix is returned
\* trimmed; only an empty or whitespace-only input yields absent.
C20_StripsPrefixesReturnsRemainder ==
    (call.fn = "normalizeTarget" /\ Returned) =>
        Get(call.ret) =
            (IF Trim(call.raw) = <<>> THEN None ELSE Some(Remainder))

\* C20 amended: one brand prefix and then one role prefix are stripped and
\* the trimmed remainder is returned; a string without prefix is returned
\* trimmed; an input whose remainder is empty (an empty or whitespace-only
\* input, or one that consists of prefixes only) yields absent.
C20_StripsPrefixesNonEmptyRemainder ==
    (call.fn = "normalizeTarget" /\ Returned) =>
        Get(call.ret) = (IF Remainder = <<>> THEN None ELSE Some(Remainder))

\* a brand prefix and a role prefix are stripped from a target whose id itself
\* starts with a role prefix: that second role prefix stays
C20_Witness ==
    /\ call.fn = "normalizeTarget" /\ Returned
    /\ call.raw = <<" ","L","a","r","k",":"," ","U","s","e","r",":","c","h","a","t",":","x"," ">>
    /\ Get(call.ret) = Some(<<"c","h","a","t",":","x">>)

\* the text sendMediaFeishu is to send: caption, newline, url; the url alone
\* for an empty caption
CaptionAndUrl ==
    IF call.text = <<>> THEN Get(call.mediaUrl)
    ELSE call.text \o <<"\n">> \o Get(call.mediaUrl)

ErrorOf(message) == [isError |-> TRUE, message |-> message, value |-> None]

NonError(value) == [isError |-> FALSE, message |-> <<>>, value |-> value]

\* String(err) of a value that is a string or undefined
StringOf(value) == IF IsSome(value) THEN Get(value) ELSE "undefined"

\* the result record of a probe; error and botInfo are optional
ProbeResult(ok, error, botInfo) == [ok |-> ok, error |-> error, botInfo |-> botInfo]

\* { appName: res.data?.bot?.app_name, openId: res.data?.bot?.open_id }
BotInfoOf(res) ==
    IF IsSome(res.data) /\ IsSome(Get(res.data).bot)
    THEN [appName |-> Get(Get(res.data).bot).app_name,
          openId |-> Get(Get(res.data).bot).open_id]
    ELSE [appName |-> None, openId |-> None]

\* a slip: the permission-denied codes count as a working app
ProbeResponse_PermissionDeniedOk(res) ==
    IF res.code = 0 THEN ProbeResult(TRUE, None, Some(BotInfoOf(res)))
    ELSE IF res.code = 99991663 \/ res.code = 99991664
    THEN ProbeResult(TRUE, None, None)
    ELSE ProbeResult(FALSE,
            Some(<<"API error: ", res.msg, " (code: ", res.code, ")">>), None)

\* what probeFeishu returns for a vendor response
ProbeResponse(res) ==
    IF res.code = 0 THEN ProbeResult(TRUE, None, Some(BotInfoOf(res)))
    ELSE ProbeResult(FALSE,
            Some(<<"API error: ", res.msg, " (code: ", res.code, ")">>), None)

\* the try block: getFeishuClient, then the race of botInfo.get() against the
\* timer.  outcome is what the vendor call does: it resolves with a response,
\* rejects, or is still pending when the timer fires
ProbeTry(got, outcome) ==
    IF got.threw
    THEN [threw |-> TRUE, vendorCalls |-> <<>>,
          err |-> ErrorOf(<<"Feishu appId and appSecret are required">>)]
    ELSE IF outcome.kind = "pending"
    THEN [threw |-> TRUE, vendorCalls |-> <<"bot.v3.botInfo.get">>,
          err |-> ErrorOf(<<"Request timed out">>)]
    ELSE IF outcome.kind = "rejected"
    THEN [threw |-> TRUE, vendorCalls |-> <<"bot.v3.botInfo.get">>,
          err |-> outcome.err]
    ELSE [threw |-> FALSE, vendorCalls |-> <<"bot.v3.botInfo.get">>,
          value |-> ProbeResponse(outcome.res)]

\* the outer catch: err instanceof Error ? err.message : String(err)
ProbeCatch(got, account, t) ==
    [settled |-> "resolved",
     value |-> IF t.threw
               THEN ProbeResult(FALSE,
                       Some(IF t.err.isError THEN t.err.message
                            ELSE <<StringOf(t.err.value)>>), None)
               ELSE t.value,
     vendorCalls |-> t.vendorCalls, account |-> account, got |-> Some(got)]

ProbeWithClient(got, account, outcome) ==
    ProbeCatch(got, account, ProbeTry(got, outcome))

probeFeishu(cache, heap, account, outcome) ==
    IF ~account.configured
    THEN [settled |-> "resolved",
          value |-> ProbeResult(FALSE,
                       Some(<<"Not configured - missing appId or appSecret">>), None),
          vendorCalls |-> <<>>, account |-> account, got |-> None]
    ELSE ProbeWithClient(getFeishuClient(cache, heap, account), account, outcome)

BotResponse(code, msg, data) ==
    [kind |-> "resolved", res |-> [code |-> code, msg |-> msg, data |-> data]]

\* what the botInfo.get() call may do
ProbeOutcomes ==
    {BotResponse(0, "success",
        Some([bot |-> Some([app_name |-> Some("Test Bot"),
                            open_id |-> Some("ou_bot123")])])),
     BotResponse(0, "success", Some([bot |-> None])),
     BotResponse(0, "success", None),
     BotResponse(99991400, "Invalid app credentials", None),
     BotResponse(99991663, "Permission denied", None),
     [kind |-> "rejected", err |-> ErrorOf(<<"Network error">>)],
     [kind |-> "rejected", err |-> NonError(Some("String error"))],
     [kind |-> "rejected", err |-> NonError(None)],
     [kind |-> "pending"]}

\* the account ids probed
ProbedIds == {None, Some(DEFAULT_ACCOUNT_ID), Some(work)}

InitProbe ==
    /\ cfg \in SendConfigs
    /\ env = EmptyEnv
    /\ mon = [pc |-> "idle", why |-> "", p |-> None]
    /\ last = None
    /\ CacheEmpty
    /\ StreamIdle
    /\ call \in {[fn |-> "probeFeishu", accountId |-> a, timeoutMs |-> t,
                  outcome |-> None, ret |-> None] :
                    a \in ProbedIds, t \in {None, Some(5000)}}

\* the probe has settled; the cache changes when getFeishuClient was called
DoProbe(out, outcome) ==
    /\ call' = [call EXCEPT !.ret = Some(out), !.outcome = Some(outcome)]
    /\ IF IsSome(out.got) THEN DoGet(out.account, Get(out.got))
       ELSE UNCHANGED cacheVars

\* status.probeAccount: probeFeishu on the resolved account
CallProbe ==
    /\ call.fn = "probeFeishu"
    /\ call.ret = None
    /\ \E outcome \in ProbeOutcomes :
         DoProbe(probeFeishu(clientCache, clients,
                             resolveFeishuAccount(cfg, env, call.accountId),
                             outcome),
                 outcome)
    /\ UNCHANGED <<cfg, env, mon, last, streamVars>>

NextProbe == CallProbe

SpecProbe == InitProbe /\ [][NextProbe]_vars

Probed == Get(call.ret)

ProbeOutcome == Get(call.outcome)

MaxHandled == 2

StreamConfigs ==
    {[EmptyConfig EXCEPT
        !.appId = Some(Chars_cli_x), !.appSecret = Some(Chars_secret),
        !.dm = Some([enabled |-> None, policy |-> Some("allowlist"),
                     allowFrom |-> Some(<<ou_1>>)]),
        !.groupPolicy = Some("open")],
     [EmptyConfig EXCEPT
        !.appId = Some(Chars_cli_x), !.appSecret = Some(Chars_secret),
        !.dm = Some([enabled |-> None, policy |-> Some("open"),
                     allowFrom |-> Some(<<Star>>)]),
        !.groupPolicy = Some("disabled")]}

StreamEvents ==
    {Event(s, "p2p", "oc_1", pl, None) :
        s \in Senders,
        pl \in {[message_type |-> "text", content |-> Some([text |-> Some(TextHi)])],
                [message_type |-> "text", content |-> None]}}
    \cup
    {Event(s, "group", "oc_1",
           [message_type |-> "text", content |-> Some([text |-> Some(TextAtBot)])],
           None) : s \in Senders}

InitStream ==
    /\ cfg \in {Some(c) : c \in StreamConfigs}
    /\ env = EmptyEnv
    /\ mon = [pc |-> "idle", why |-> "", p |-> None]
    /\ last = None
    /\ CacheEmpty
    /\ StreamIdle
    /\ call = NoCall

\* what is recorded of a handled event: what the handler did (h), and the
\* position of monitorFeishuProvider (m) when the event was delivered
HandledEntry(h, m) ==
    [data |-> h.data, senderId |-> h.senderId, p |-> m.p, log |-> h.log,
     forwarded |-> (h.calls # <<>>), caught |-> h.caught,
     errorLog |-> h.errorLog, propagated |-> h.propagated, monitor |-> m.pc]

\* the event stream delivers an event; the delivery is recorded
ReceiveLogged ==
    /\ Len(handled) < MaxHandled
    /\ \E data \in StreamEvents, pipeline \in PipelineOutcomes :
         /\ DeliverEvent(data, pipeline)
         /\ handled' = Append(handled,
                HandledEntry(EventHandler(data, Get(mon.p), pipeline), mon))

\* the host raises opts.abortSignal: onAbort logs "Feishu: stopping
\* WebSocket client" and resolves the promise monitorFeishuProvider awaits
Abort ==
    /\ ~abortSignal
    /\ abortSignal' = TRUE
    /\ mon' = IF mon.pc = "running"
              THEN [mon EXCEPT !.pc = "returned", !.why = "aborted"]
              ELSE mon
    /\ UNCHANGED <<cfg, env, last, call, cacheVars, ws, handled>>

NextStream == StartMonitor \/ ReceiveLogged \/ Settle \/ Abort

SpecStream == InitStream /\ [][NextStream]_vars

\* monitorFeishuProvider has returned because of the abort signal
ReturnedOnAbort == mon.pc = "returned" /\ mon.why = "aborted"

\* C23: once the abort signal is raised for a running account the monitor
\* has returned (at once when the signal was raised before the stream
\* started), the event stream of the account is stopped, and no event is
\* handled after the monitor returned.
C23_StreamStoppedOnAbort ==
    /\ abortSignal => mon.pc # "running"
    /\ ReturnedOnAbort => ws # "started"
    /\ \A i \in DOMAIN handled : handled[i].monitor = "running"

\* the handler's own work threw: the reply pipeline rejected, or JSON.parse
\* threw on the content
ThrewWhileHandling(e) ==
    \/ e.caught
    \/ e.data.message.message_type = "text" /\ ~IsSome(e.data.message.content)

EarlyReturns ==
    {"Ignoring non-text message type", "Failed to parse message content",
     "empty text"}

\* C25: a message that is not of type text, whose content does not parse, or
\* whose text is empty or blank is dropped by a return that precedes the DM
\* and group policy blocks, and is never forwarded, whatever the policies.
C25_UnreadableDroppedFirst ==
    (Handled /\ ~Readable) =>
        /\ H.log \in EarlyReturns
        /\ ~H.dmPassed /\ ~H.groupPassed
        /\ H.calls = <<>>
        /\ ~H.caught

\* a blank direct message under dm.policy "open" with a wildcard allowlist
C25_Witness ==
    /\ Handled /\ IsDirect
    /\ H.data.message.message_type = "text"
    /\ H.data.message.content = Some([text |-> Some(<<" ">>)])
    /\ Dm.enabled # Some(FALSE) /\ Dm.policy = Some("open")
    /\ DmAllowFrom = <<Star>>
    /\ H.log = "empty text" /\ ~Forwarded

StartConfigs ==
    {[EmptyConfig EXCEPT
        !.enabled = be, !.appId = bi, !.appSecret = Some(Chars_sec_base),
        !.dm = bd, !.groupPolicy = Some("open"),
        !.groupAllowFrom = Some(<<ou_2>>),
        !.accounts = Some(
            << [id |-> work,
                config |-> [EmptyConfig EXCEPT
                              !.enabled = ne, !.appId = ni, !.dm = nd,
                              !.groupPolicy = ng[1],
                              !.groupAllowFrom = ng[2]]],
               [id |-> other,
                config |-> [EmptyConfig EXCEPT !.enabled = Some(FALSE)]] >>)] :
        be \in {None, Some(FALSE)},
        bi \in {None, Some(Chars_cli_base)},
        bd \in {None, Some([enabled |-> Some(FALSE), policy |-> Some("allowlist"),
                            allowFrom |-> Some(<<ou_1>>)])},
        ne \in {None, Some(TRUE), Some(FALSE)},
        ni \in {None, Some(Chars_cli_work)},
        nd \in {None,
                Some([enabled |-> None, policy |-> Some("allowlist"),
                      allowFrom |-> None]),
                Some([enabled |-> None, policy |-> Some("open"),
                      allowFrom |-> Some(<<Star>>)])},
        ng \in {<<None, None>>, <<Some("allowlist"), Some(<<>>)>>}}

InitStart ==
    /\ cfg \in {Some(c) : c \in StartConfigs}
    /\ env = EmptyEnv
    /\ mon = [pc |-> "idle", why |-> "", p |-> None]
    /\ last = None
    /\ CacheEmpty
    /\ StreamIdle
    /\ call = NoCall

NextStart == StartMonitor \/ Receive \/ Settle

SpecStart == InitStart /\ [][NextStart]_vars

\* the monitor was started for a named account: an id other than the default
\* id that is a key of accounts
StartedForNamed ==
    /\ mon.pc # "idle"
    /\ mon.accountId # DEFAULT_ACCOUNT_ID
    /\ IsSome(AccountConfig.accounts)
    /\ IsSome(Lookup(Get(AccountConfig.accounts), mon.accountId))

\* the accounts entry of that account, and its dm section
StartedEntry == Get(Lookup(Get(AccountConfig.accounts), mon.accountId))

NamedDm == Get(StartedEntry.dm)

\* the entry's top-level field if set, else the base field
TopLevel(f) == IF IsSome(StartedEntry[f]) THEN StartedEntry[f] ELSE AccountConfig[f]

\* the DM decision taken from one dm section alone
DmDecision(dm) ==
    DmPolicyCheck(Sender, [dmEnabled |-> OrElse(dm.enabled, TRUE),
                           dmPolicy |-> OrElse(dm.policy, "pairing"),
                           allowFrom |-> OrElse(dm.allowFrom, <<>>)])

\* C29: for a named account a top-level field it omits is the base's, and a
\* dm, groups or groupAllowFrom it sets replaces the base's as a whole: the
\* fields its dm omits take their defaults, not the base dm's values, and a
\* direct message is decided by the named account's dm alone.
C29_ShallowOverlay ==
    (StartedForNamed /\ mon.pc = "running") =>
        /\ Get(mon.p).groupPolicy = OrElse(TopLevel("groupPolicy"), "allowlist")
        /\ Get(mon.p).groupsConfig = OrElse(TopLevel("groups"), <<>>)
        /\ Get(mon.p).groupAllowFrom = OrElse(TopLevel("groupAllowFrom"), <<>>)
        /\ IsSome(StartedEntry.dm) =>
              /\ Get(mon.p).dmEnabled = OrElse(NamedDm.enabled, TRUE)
              /\ Get(mon.p).dmPolicy = OrElse(NamedDm.policy, "pairing")
              /\ Get(mon.p).allowFrom = OrElse(NamedDm.allowFrom, <<>>)
              /\ (Handled /\ IsDirect /\ Readable) =>
                    (Forwarded <=> DmDecision(NamedDm) = "pass")
        /\ ~IsSome(StartedEntry.dm) =>
              /\ Get(mon.p).dmEnabled = OrElse(Dm.enabled, TRUE)
              /\ Get(mon.p).allowFrom = OrElse(Dm.allowFrom, <<>>)
              /\ (Handled /\ IsDirect /\ Readable) =>
                    (Forwarded <=> DmDecision(Dm) = "pass")

\* the base dm is { enabled: false, policy: "allowlist", allowFrom: [ou_1] },
\* the named account's dm is { policy: "allowlist" }: a direct message of
\* ou_1 is rejected as not in the allowlist, not as DM disabled
C29_Witness ==
    /\ StartedForNamed /\ mon.accountId = work /\ mon.pc = "running"
    /\ Dm.enabled = Some(FALSE) /\ Dm.allowFrom = Some(<<ou_1>>)
    /\ StartedEntry.dm = Some([enabled |-> None, policy |-> Some("allowlist"),
                               allowFrom |-> None])
    /\ StartedEntry.groupPolicy = None /\ Get(mon.p).groupPolicy = "open"
    /\ Handled /\ IsDirect /\ Readable
    /\ Sender = ou_1
    /\ H.log = "not in allowlist"

\* the account the monitor was started for, as resolveFeishuAccount returns it
StartedAccount == resolveFeishuAccount(cfg, env, Some(mon.accountId))

\* C30: the monitor registers a handler and starts a WebSocket client only
\* for an account that is configured and enabled, so no event of a disabled
\* account is handled; and a named account with enabled true (and
\* credentials) is started whatever the other switches are.
C30_StartedOnlyIfEnabled ==
    /\ mon.pc # "idle" =>
          /\ ~(StartedAccount.configured /\ StartedAccount.enabled) =>
                (ws = "none" /\ mon.p = None)
          /\ (StartedForNamed /\ StartedEntry.enabled = Some(TRUE)
                /\ StartedAccount.configured) => ws = "started"
    /\ Handled => StartedAccount.enabled

====
